---- MODULE Spec2Model ----
(***************************************************************************)
(* Verification model of the sourcing scripts: the company-name normalizer, *)
(* the rate-limited CRM client, the entity resolver, the interaction check   *)
(* and the scoring functions.                                                *)
(*                                                                           *)
(* Strings are sequences of one-character strings, so that lower-casing,     *)
(* trimming and the regular-expression substitutions are computed character  *)
(* by character as the Python code computes them.  A missing (None) string   *)
(* field and the empty string are both the empty sequence: every read of     *)
(* such a field in the code is `x.get(..) or ""` or a truthiness test.       *)
(***************************************************************************)
EXTENDS Integers, Sequences, FiniteSets, TLC

(***************************************************************************)
(* Characters                                                                *)
(***************************************************************************)
UpperLetters == <<"A","B","C","D","E","F","G","H","I","J","K","L","M",
                  "N","O","P","Q","R","S","T","U","V","W","X","Y","Z">>
LowerLetters == <<"a","b","c","d","e","f","g","h","i","j","k","l","m",
                  "n","o","p","q","r","s","t","u","v","w","x","y","z">>
Digits == {"0","1","2","3","4","5","6","7","8","9"}
Whitespace == {" ", "\t", "\n", "\r"}

Range(s) == {s[i] : i \in 1..Len(s)}

IsSpace(c) == c \in Whitespace

\* str.lower() on one character
LowerChar(c) ==
  IF \E i \in 1..Len(UpperLetters) : UpperLetters[i] = c
    THEN LowerLetters[CHOOSE i \in 1..Len(UpperLetters) : UpperLetters[i] = c]
    ELSE c

\* str.upper() on one character
UpperChar(c) ==
  IF \E i \in 1..Len(LowerLetters) : LowerLetters[i] = c
    THEN UpperLetters[CHOOSE i \in 1..Len(LowerLetters) : LowerLetters[i] = c]
    ELSE c

\* str.lower()
Lower(s) == [i \in 1..Len(s) |-> LowerChar(s[i])]

RECURSIVE LStrip(_)
LStrip(s) == IF s # <<>> /\ IsSpace(Head(s)) THEN LStrip(Tail(s)) ELSE s

RECURSIVE RStrip(_)
RStrip(s) ==
  IF s # <<>> /\ IsSpace(s[Len(s)]) THEN RStrip(SubSeq(s, 1, Len(s) - 1)) ELSE s

\* str.strip()
Strip(s) == RStrip(LStrip(s))

EndsWith(s, t) ==
  /\ Len(t) <= Len(s)
  /\ SubSeq(s, Len(s) - Len(t) + 1, Len(s)) = t

(***************************************************************************)
(* normalize_name                                                            *)
(***************************************************************************)
\* the alternation (inc|llc|ltd|corp|co|company) of the suffix pattern
LegalSuffixes ==
  { <<"i","n","c">>, <<"l","l","c">>, <<"l","t","d">>, <<"c","o","r","p">>,
    <<"c","o">>, <<"c","o","m","p","a","n","y">> }

\* the optional trailing period \.? of the suffix pattern
OptionalDot == { <<>>, <<".">> }

\* the tails  token + optional period  that end s and follow a whitespace
SuffixTails(s, tokens) ==
  { t \o d : t \in tokens, d \in OptionalDot } \cap
  { u \in { SubSeq(s, j, Len(s)) : j \in 2..Len(s) } :
        IsSpace(s[Len(s) - Len(u)]) }

\* re.sub(r'\s+(tokens)\.?$', '', s): the leftmost match starts at the first
\* character of the whitespace run before the token; everything from there on
\* is removed.  At most one match exists (the pattern is anchored at the end).
SubSuffix(s, tokens) ==
  IF SuffixTails(s, tokens) = {} THEN s
  ELSE LET u == CHOOSE t \in SuffixTails(s, tokens) :
                   \A v \in SuffixTails(s, tokens) : Len(t) >= Len(v)
       IN  RStrip(SubSeq(s, 1, Len(s) - Len(u)))

KeptChar(c) == c \in Range(LowerLetters) \cup Digits \cup Whitespace

\* re.sub(r'[^a-z0-9\s]', '', s)
SubPunct(s) == SelectSeq(s, KeptChar)

\* re.sub(r'\s+', ' ', s)
RECURSIVE SubSpaces(_)
SubSpaces(s) ==
  IF s = <<>> THEN <<>>
  ELSE IF IsSpace(Head(s))
    THEN <<" ">> \o SubSpaces(LStrip(s))
    ELSE <<Head(s)>> \o SubSpaces(Tail(s))

\* normalize_name of find_top_startups.py (identical text in add_to_affinity,
\* find_raising_startups, affinity_recheck, affinity_deep_check,
\* browder_portfolio)
normalize_name(name) ==
  IF name = <<>> THEN <<>>
  ELSE Strip(SubSpaces(SubPunct(SubSuffix(Strip(Lower(name)), LegalSuffixes))))

(***************************************************************************)
(* State                                                                     *)
(***************************************************************************)
VARIABLES
  name,      \* normalizer: the input name
  other,     \* normalizer: a second name, differing from name in case or punctuation
  key,       \* normalizer: normalize_name(name)
  otherKey,  \* normalizer: normalize_name(other)
  rekey,     \* normalizer: normalize_name(key)
  npc,       \* normalizer: what has been computed so far
  copyKeys,  \* normalizer: the keys the other copies of normalize_name give name
  helper,    \* client: the GET/POST helper that is running
  req,       \* client: the request of the current helper call
  sent,      \* client: the requests sent so far, in order
  slept,     \* client: the time.sleep() durations so far, in order
  resp,      \* client: the response being handled
  ret,       \* client: the value the helper returned to its caller
  cpc,       \* client: "idle", "wait" (request sent), "got" (response in), "ret"
  apiShape,  \* client: the server's list answers are {"key": [..]} or bare lists
  script,    \* scripts: the script that is running
  idx,       \* scripts: rows (candidates) finished so far
  qname,     \* scripts: the company name of the current row
  qdomain,   \* scripts: the domain of the current row
  pc,        \* scripts: position in the row's processing
  org,       \* scripts: id of the resolved organization, 0 for None
  foundBy,   \* scripts: "domain" or "name" when org was found, else "none"
  entries,   \* scripts: list_entries of the organization detail
  interaction, \* scripts: the last result of has_any_interaction
  rowsOut,   \* scripts: the outcome of each finished row, in order
  scorer,    \* scoring: the script whose scoring functions are applied
  company,   \* scoring: the company record being scored
  raise,     \* scoring: its raise-likelihood score, in tenths of a point
  founder,   \* scoring: its founder score
  prev,      \* scoring: the scores before the last change of the record
  edits,     \* scoring: the changes made to the record so far
  spc,       \* scoring: "off", "input" (not yet scored), "scored"
  person,    \* founder: the person record being scored
  personScore, \* founder: compute_founder_score(person) of find_top_startups
  teamScore, \* founder: compute_founder_score of find_raising_startups for
             \*          a company whose employee highlights are the person's
  personPrev, \* founder: the two scores before the last change of the record
  ppc,       \* founder: "off", "input" (not yet scored), "scored"
  writer,    \* sheet: the script that runs
  pre,       \* sheet: the rows of the sheet before the run
  nrows,     \* sheet: the number of rows the run has to process
  sheet,     \* sheet: the rows of the sheet now
  calls,     \* sheet: the mutating sheet calls issued so far
  wrow,      \* sheet: the number of rows processed so far
  wpc,       \* sheet: "off", "start", "loop", "write", "done", "killed"
  nentries,  \* pool: the number of list entries to check
  tasks,     \* pool: the future of every entry
  checked,   \* pool: the counter of the submitting thread
  raising_later, \* pool: the result list of the submitting thread
  mpc,       \* pool: the submitting thread: "off", "submit", "collect", "finished"
  lcols,     \* lemlist: the columns the sheet has
  lrows,     \* lemlist: the data rows of the sheet
  lrow,      \* lemlist: the number of rows the filter loop has seen
  leads,     \* lemlist: the leads kept by the filter loop
  lcount,    \* lemlist: the counters of the run
  lpushed,   \* lemlist: the pushes issued, with the status answered
  lpc,       \* lemlist: "off", "filter", "push", "done"
  companies, \* funnel: the company records fetched, in order
  lemlist_emails,    \* funnel: the contacted emails loaded from Lemlist
  lemlist_companies, \* funnel: the contacted company keys loaded from Lemlist
  existing_names,    \* funnel: the company keys loaded from the worksheets
  seen_names,  \* funnel: the keys the filter loop has seen
  scored,      \* funnel: (raise_score, company) of the companies that pass
  top_candidates, \* funnel: scored[:600]
  pre_affinity,   \* funnel: the candidates with a CEO name and email
  final,       \* funnel: the output list
  fi,          \* funnel: the position of the current loop
  fpc,         \* funnel: "off", "filter", "rank", "second", "sort", "third", "done"
  hscript,   \* harmonic: the script that runs the search
  all_urns,  \* harmonic: the URNs collected by the pagination loop
  start,     \* harmonic: the offset of the next search request
  ci,        \* harmonic: the number of the chunk batch_get_companies is at
  attempt,   \* harmonic: the attempt (0, 1, 2) the chunk is at
  out,       \* harmonic: the records batch_get_companies has collected
  posted,    \* harmonic: the batchGet requests sent, with their outcome
  hpc        \* harmonic: "off", "paging", "batch", "done", "raised"

normVars == <<name, other, key, otherKey, rekey, npc, copyKeys>>
clientVars == <<helper, req, sent, slept, resp, ret, cpc, apiShape>>
scriptVars == <<script, idx, qname, qdomain, pc, org, foundBy, entries, interaction, rowsOut>>

scoreVars == <<scorer, company, raise, founder, prev, edits, spc>>

personVars == <<person, personScore, teamScore, personPrev, ppc>>

\* the variables of the parts added after the first four
sheetVars == <<writer, pre, nrows, sheet, calls, wrow, wpc>>

poolVars == <<nentries, tasks, checked, raising_later, mpc>>

lemlistVars == <<lcols, lrows, lrow, leads, lcount, lpushed, lpc>>

funnelVars == <<companies, lemlist_emails, lemlist_companies, existing_names, seen_names,
                scored, top_candidates, pre_affinity, final, fi, fpc>>

harmonicVars == <<hscript, all_urns, start, ci, attempt, out, posted, hpc>>

extraVars == <<personVars, sheetVars, poolVars, lemlistVars, funnelVars, harmonicVars>>

\* all variables but those of one of the added parts
exceptPerson == <<normVars, clientVars, scriptVars, scoreVars, sheetVars, poolVars, lemlistVars, funnelVars,
                 harmonicVars>>
exceptSheet == <<normVars, clientVars, scriptVars, scoreVars, personVars, poolVars, lemlistVars, funnelVars,
                 harmonicVars>>
exceptPool == <<normVars, clientVars, scriptVars, scoreVars, personVars, sheetVars, lemlistVars, funnelVars,
                 harmonicVars>>
exceptFunnel == <<normVars, clientVars, scriptVars, scoreVars, personVars, sheetVars, poolVars,
                  lemlistVars, harmonicVars>>
exceptHarmonic == <<normVars, clientVars, scriptVars, scoreVars, personVars, sheetVars,
                    poolVars, lemlistVars, funnelVars>>
exceptLemlist == <<normVars, clientVars, scriptVars, scoreVars, personVars, sheetVars, poolVars, funnelVars,
                 harmonicVars>>

vars == <<normVars, clientVars, scriptVars, scoreVars, extraVars>>

\* an optional field: <<>> when the key is absent (or None), <<v>> when it is v
Absent == <<>>
Some(v) == <<v>>

\* a headcount field: absent, a number, or a dict with latest_metric_value
NoCount == [kind |-> "none", v |-> 0]

\* a record without any field
EmptyCompany ==
  [ hc90 |-> Absent, hc180 |-> Absent, wt_pct |-> Absent, li_pct |-> Absent,
    highlights |-> <<>>, employee_highlights |-> <<>>, days_ago |-> Absent,
    funding_total |-> Absent, headcount |-> NoCount, corrected_headcount |-> NoCount,
    year |-> Absent ]

NoPrev == [raise |-> 0, founder |-> 0, signal |-> "none"]

\* no record is being scored
ScoreIdle ==
  /\ scorer = "none"
  /\ company = EmptyCompany
  /\ raise = 0
  /\ founder = 0
  /\ prev = NoPrev
  /\ edits = 0
  /\ spc = "off"

NoInteraction == [has |-> FALSE, reason |-> "", n |-> 0]

NoPerson == [experience |-> <<>>, education |-> <<>>, highlights |-> <<>>]
NoPersonPrev == [person |-> 0, team |-> 0, change |-> "none"]

\* no person is being scored
PersonIdle ==
  /\ person = NoPerson
  /\ personScore = 0
  /\ teamScore = 0
  /\ personPrev = NoPersonPrev
  /\ ppc = "off"

\* the parts added after the first four are not in use
\* no script is writing the sheet
SheetIdle ==
  /\ writer = "none" /\ pre = <<>> /\ nrows = 0 /\ sheet = <<>>
  /\ calls = <<>> /\ wrow = 0 /\ wpc = "off"

\* no pool is running
PoolIdle ==
  /\ nentries = 0 /\ tasks = <<>> /\ checked = 0 /\ raising_later = <<>> /\ mpc = "off"

NoCounts ==
  [skipped_empty |-> 0, skipped_no_email |-> 0, added |-> 0, already_exists |-> 0, failed |-> 0]

\* add_to_lemlist is not running
LemlistIdle ==
  /\ lcols = {} /\ lrows = <<>> /\ lrow = 0 /\ leads = <<>>
  /\ lcount = NoCounts /\ lpushed = <<>> /\ lpc = "off"

\* step 3 and 4 of find_top_startups are not running
FunnelIdle ==
  /\ companies = <<>> /\ lemlist_emails = {} /\ lemlist_companies = {}
  /\ existing_names = {} /\ seen_names = {} /\ scored = <<>> /\ top_candidates = <<>>
  /\ pre_affinity = <<>> /\ final = <<>> /\ fi = 0 /\ fpc = "off"

\* no company search is running
HarmonicIdle ==
  /\ hscript = "none" /\ all_urns = <<>> /\ start = 0 /\ ci = 0 /\ attempt = 0
  /\ out = <<>> /\ posted = <<>> /\ hpc = "off"

ExtrasIdle ==
  PersonIdle /\ SheetIdle /\ PoolIdle /\ LemlistIdle /\ FunnelIdle /\ HarmonicIdle

\* no script is running
ScriptIdle ==
  /\ script = "none"
  /\ idx = 0
  /\ qname = <<>>
  /\ qdomain = <<>>
  /\ pc = "standalone"
  /\ org = 0
  /\ foundBy = "none"
  /\ entries = <<>>
  /\ interaction = NoInteraction
  /\ rowsOut = <<>>

\* the normalizer is not in use
NoCopyKeys == [check_w26 |-> <<>>, affinity_check |-> <<>>]

NormIdle ==
  /\ name = <<>>
  /\ other = <<>>
  /\ key = <<>>
  /\ otherKey = <<>>
  /\ rekey = <<>>
  /\ npc = "off"
  /\ copyKeys = NoCopyKeys

(***************************************************************************)
(* Inputs of the normalizer                                                  *)
(***************************************************************************)
MaxPieces == 3

\* names are built from these pieces
NamePieces ==
  { <<"a">>, <<"b">>, <<" ">>, <<" ", "c", "o">>, <<" ", "I", "n", "c">>,
    <<".">>, <<"!">>, <<",">> }

RECURSIVE Concat(_)
Concat(ss) == IF ss = <<>> THEN <<>> ELSE Head(ss) \o Concat(Tail(ss))

PieceNames ==
  { Concat(ps) : ps \in UNION { [1..n -> NamePieces] : n \in 0..MaxPieces } }

AcmeCommaIncDot == <<"A","c","m","e",","," ","I","n","c",".">>
ACME_INC == <<"A","C","M","E"," ","I","N","C">>
AcmeCoInc == <<"A","c","m","e"," ","C","o"," ","I","n","c">>
acme == <<"a","c","m","e">>

Names == PieceNames \cup {AcmeCommaIncDot, ACME_INC, AcmeCoInc}

Punctuation == {".", ",", "!"}

\* s with the case of its i-th character changed
FlipCase(s, i) ==
  [s EXCEPT ![i] = IF LowerChar(s[i]) # s[i] THEN LowerChar(s[i]) ELSE UpperChar(s[i])]

\* s with character p put in front of position i (i = Len(s)+1: at the end)
InsertAt(s, i, p) == SubSeq(s, 1, i - 1) \o <<p>> \o SubSeq(s, i, Len(s))

(***************************************************************************)
(* The rate-limited CRM client                                               *)
(***************************************************************************)
\* The helpers.  The recursive GET is the same text in add_to_affinity
\* (affinity_get), find_top_startups, find_raising_startups, browder_portfolio,
\* deep_affinity_analysis (AffinityClient._get), affinity_recheck, check_w26 and
\* affinity_deep_check; affinity_check and push_and_check return {} instead of
\* None on failure; find_raising_later has a loop of five attempts.
RecursiveGet == "affinity_get"
RecursiveGetEmpty == "affinity_check._get"
RecursivePost == "affinity_post"
BoundedGet == "find_raising_later.affinity_get"
Helpers == {RecursiveGet, RecursiveGetEmpty, RecursivePost, BoundedGet}

\* statuses the server may answer with
Statuses == {200, 201, 404, 429, 500}

\* Retry-After header values; NoHeader: the header is absent
NoHeader == -1
RetryAfterValues == {NoHeader, 1, 7}

\* r.headers.get('Retry-After', 5) / (.., 2) in find_raising_later
DefaultRetryAfter(h) == IF h = BoundedGet THEN 2 ELSE 5

\* int(r.headers.get('Retry-After', default))
RetryAfterSeconds(h, r) ==
  IF r.retryAfter = NoHeader THEN DefaultRetryAfter(h) ELSE r.retryAfter

\* for attempt in range(5) in find_raising_later; the recursive helpers have
\* no limit (0)
AttemptLimit(h) == IF h = BoundedGet THEN 5 ELSE 0

NoRequest == [method |-> "none", ep |-> "none", term |-> <<>>, id |-> 0]
NoResponse == [status |-> 0, retryAfter |-> NoHeader, shape |-> "none", items |-> <<>>]
NoReturn == [kind |-> "unset", status |-> 0, shape |-> "none", items |-> <<>>]

\* return None
ReturnNone == [kind |-> "None", status |-> 0, shape |-> "none", items |-> <<>>]
\* return {}
ReturnEmptyDict == [kind |-> "json", status |-> 0, shape |-> "emptydict", items |-> <<>>]
\* return r.json()
ReturnJson(r) == [kind |-> "json", status |-> 0, shape |-> r.shape, items |-> r.items]
\* return r.status_code, r.json() if r.status_code in (200, 201) else r.text
ReturnPair(r) ==
  IF r.status \in {200, 201}
    THEN [kind |-> "pair", status |-> r.status, shape |-> r.shape, items |-> r.items]
    ELSE [kind |-> "pair", status |-> r.status, shape |-> "text", items |-> <<>>]

\* helpers that all return None for a failed request
ReturnFor_AlwaysNone(h, r) ==
  IF h = RecursivePost THEN ReturnPair(r)
  ELSE IF r.status # 200 THEN ReturnNone
  ELSE ReturnJson(r)

\* what a helper returns for a response that is not a 429
ReturnFor(h, r) ==
  IF h = RecursivePost THEN ReturnPair(r)
  ELSE IF r.status # 200
    THEN (IF h = RecursiveGetEmpty THEN ReturnEmptyDict ELSE ReturnNone)
    ELSE ReturnJson(r)

\* `if data:` -- None, {} and [] are falsy
Truthy(v) ==
  /\ v.kind = "json"
  /\ \/ v.shape = "dict"
     \/ v.shape = "list" /\ v.items # <<>>

ClientIdle ==
  /\ helper = "none"
  /\ req = NoRequest
  /\ sent = <<>>
  /\ slept = <<>>
  /\ resp = NoResponse
  /\ ret = NoReturn
  /\ cpc = "idle"
  /\ apiShape = "dict"

\* session.get / session.post of request r by helper h
Sending(h, r, log) ==
  /\ helper' = h
  /\ req' = r
  /\ sent' = Append(log, r)
  /\ resp' = NoResponse
  /\ ret' = NoReturn
  /\ cpc' = "wait"

\* the 429 responses one run of the model may contain
Max429 == 5

\* the JSON bodies of the server's answers: a dict holding the list, or a bare list
Shapes == {"dict", "list"}

\* the longest list a body holds
MaxItems == 2

SeqsUpTo(S, n) == UNION { [1..k -> S] : k \in 0..n }

\* the organizations the CRM's fuzzy search may return (id = position)
OrgPool ==
  << [name |-> <<"A", ",", " ", "C", "o", ".">>, domain |-> <<"A", " ">>],
     [name |-> <<>>,                             domain |-> <<>>],
     [name |-> <<"a">>,                          domain |-> <<"b">>] >>
OrgIds == 1..Len(OrgPool)

\* the id the CRM gives an organization created by POST /organizations
NewOrgId == Len(OrgPool) + 1

\* the designated target list ("1a Sourcing List") and some other list
TARGET_LIST_ID == 21233
ListIds == {TARGET_LIST_ID, TARGET_LIST_ID + 1}

\* the option ids a status field value may hold: Raising Later, or another
RAISING_LATER == 153028
StatusOptions == {RAISING_LATER, RAISING_LATER + 1}

\* the lists a 200/201 answer to request r may hold
BodyItems(r) ==
  IF r.ep = "/organizations" /\ r.method = "GET" THEN SeqsUpTo(OrgIds, MaxItems)
  ELSE IF r.ep = "/organizations" THEN { <<NewOrgId>> }
  ELSE IF r.ep \in {"/organizations/{id}", "/organizations/{id}/list-entries"}
    THEN SeqsUpTo(ListIds, MaxItems)
  ELSE IF r.ep = "/notes" THEN { [i \in 1..k |-> i] : k \in 0..MaxItems }
  ELSE IF r.ep = "/field-values" THEN SeqsUpTo(StatusOptions, MaxItems)
  ELSE { <<>> }

\* an organization detail and a created organization are always a dict
BodyShape(r) ==
  IF r.ep \in {"/organizations/{id}", "/lists/{id}/list-entries"} \/ r.method = "POST"
    THEN "dict" ELSE apiShape

\* The server answers the request in flight.
ServerRespond ==
  /\ cpc = "wait"
  /\ \E st \in Statuses :
       \/ /\ st = 429
          /\ pc = "standalone"
          /\ Len(slept) < Max429
          /\ \E ra \in RetryAfterValues :
               resp' = [status |-> 429, retryAfter |-> ra, shape |-> "none", items |-> <<>>]
       \/ /\ st \in {200, 201}
          /\ \E it \in BodyItems(req) :
               resp' = [status |-> st, retryAfter |-> NoHeader,
                        shape |-> BodyShape(req), items |-> it]
       \/ /\ st \notin {200, 201, 429}
          /\ resp' = [status |-> st, retryAfter |-> NoHeader, shape |-> "none", items |-> <<>>]
  /\ cpc' = "got"
  /\ UNCHANGED <<helper, req, sent, slept, ret, apiShape>>

\* a recursive helper that retries a 429 without sleeping the Retry-After value
RetryRecursive_FixedSleep ==
  /\ cpc = "got" /\ resp.status = 429
  /\ AttemptLimit(helper) = 0
  /\ slept' = Append(slept, DefaultRetryAfter(helper))
  /\ sent' = Append(sent, req)
  /\ resp' = NoResponse
  /\ cpc' = "wait"
  /\ UNCHANGED <<helper, req, ret, apiShape>>

\* a recursive helper that gives up with None at its third 429
RetryRecursive_GiveUp ==
  /\ cpc = "got" /\ resp.status = 429
  /\ AttemptLimit(helper) = 0
  /\ slept' = Append(slept, RetryAfterSeconds(helper, resp))
  /\ IF Len(sent) < 3
       THEN /\ sent' = Append(sent, req)
            /\ resp' = NoResponse
            /\ cpc' = "wait"
            /\ ret' = ret
       ELSE /\ ret' = ReturnNone
            /\ resp' = NoResponse
            /\ cpc' = "ret"
            /\ UNCHANGED sent
  /\ UNCHANGED <<helper, req, apiShape>>

\* if r.status_code == 429: the recursive helpers sleep and call themselves
\* with the same arguments.
RetryRecursive ==
  /\ cpc = "got" /\ resp.status = 429
  /\ AttemptLimit(helper) = 0
  /\ slept' = Append(slept, RetryAfterSeconds(helper, resp))
  /\ sent' = Append(sent, req)
  /\ resp' = NoResponse
  /\ cpc' = "wait"
  /\ UNCHANGED <<helper, req, ret, apiShape>>

\* a loop in find_raising_later that never runs out of attempts
RetryBounded_NoLimit ==
  /\ cpc = "got" /\ resp.status = 429
  /\ AttemptLimit(helper) > 0
  /\ slept' = Append(slept, RetryAfterSeconds(helper, resp))
  /\ sent' = Append(sent, req)
  /\ resp' = NoResponse
  /\ cpc' = "wait"
  /\ UNCHANGED <<helper, req, ret, apiShape>>

\* if r.status_code == 429 in find_raising_later: sleep and continue the loop
\* `for attempt in range(5)`; after the fifth attempt the loop ends and the
\* function returns None.
RetryBounded ==
  /\ cpc = "got" /\ resp.status = 429
  /\ AttemptLimit(helper) > 0
  /\ slept' = Append(slept, RetryAfterSeconds(helper, resp))
  /\ IF Len(sent) < AttemptLimit(helper)
       THEN /\ sent' = Append(sent, req)
            /\ resp' = NoResponse
            /\ cpc' = "wait"
            /\ ret' = ret
       ELSE /\ ret' = ReturnNone
            /\ resp' = NoResponse
            /\ cpc' = "ret"
            /\ UNCHANGED sent
  /\ UNCHANGED <<helper, req, apiShape>>

\* any other status: the helper returns (and its response object r is gone)
HelperReturn ==
  /\ cpc = "got" /\ resp.status # 429
  /\ ret' = ReturnFor(helper, resp)
  /\ resp' = NoResponse
  /\ cpc' = "ret"
  /\ UNCHANGED <<helper, req, sent, slept, apiShape>>

(***************************************************************************)
(* One call of a helper against an arbitrary server                          *)
(***************************************************************************)
SampleRequests ==
  { [method |-> "GET", ep |-> "/organizations", term |-> <<"a">>, id |-> 0],
    [method |-> "GET", ep |-> "/notes", term |-> <<>>, id |-> 1],
    [method |-> "POST", ep |-> "/organizations", term |-> <<"a">>, id |-> 0] }

ClientInit ==
  /\ NormIdle
  /\ ScriptIdle
  /\ ScoreIdle
  /\ ExtrasIdle
  /\ apiShape \in Shapes
  /\ helper \in Helpers
  /\ req \in { r \in SampleRequests : (r.method = "POST") <=> (helper = RecursivePost) }
  /\ sent = <<>>
  /\ slept = <<>>
  /\ resp = NoResponse
  /\ ret = NoReturn
  /\ cpc = "idle"

\* the caller calls the helper
HelperCall ==
  /\ cpc = "idle"
  /\ Sending(helper, req, sent)
  /\ UNCHANGED <<slept, apiShape>>

ClientNext ==
  \/ HelperCall /\ UNCHANGED <<normVars, scriptVars, scoreVars, extraVars>>
  \/ ServerRespond /\ UNCHANGED <<normVars, scriptVars, scoreVars, extraVars>>
  \/ RetryRecursive /\ UNCHANGED <<normVars, scriptVars, scoreVars, extraVars>>
  \/ RetryBounded /\ UNCHANGED <<normVars, scriptVars, scoreVars, extraVars>>
  \/ HelperReturn /\ UNCHANGED <<normVars, scriptVars, scoreVars, extraVars>>

SpecClient == ClientInit /\ [][ClientNext]_vars

(***************************************************************************)
(* Claims about the rate-limited client                                      *)
(***************************************************************************)
\* every request sent by one helper call is the request of the call
AllIdentical == \A i \in 1..Len(sent) : sent[i] = req

\* a server answering 429 then 200: two requests, and the caller gets the body
Once429Then200 ==
  (cpc = "got" /\ Len(slept) = 1 /\ resp.status = 200)
    => /\ Len(sent) = 2
       /\ cpc' = "ret"
       /\ ret'.kind \in {"json", "pair"}
       /\ ret'.shape = resp.shape /\ ret'.items = resp.items

\* C6 as stated: every 429 response causes exactly one retry of the identical
\* request after sleeping the literal Retry-After value, or 5 seconds when the
\* header is absent; 429 then 200 means two requests and the 200 body.
C6_RetryOncePer429 ==
  /\ []AllIdentical
  /\ [][Once429Then200]_vars
  /\ [][(cpc = "got" /\ resp.status = 429)
          => /\ slept' = Append(slept, IF resp.retryAfter = NoHeader
                                         THEN 5 ELSE resp.retryAfter)
             /\ sent' = Append(sent, req)]_vars

\* C6 as amended: every 429 response makes the helper sleep the literal
\* Retry-After value, or its default when the header is absent (5 seconds in the
\* recursive helpers, 2 seconds in find_raising_later.affinity_get), and then
\* retry the identical request exactly once -- except that
\* find_raising_later.affinity_get returns None instead of retrying after its
\* fifth 429; 429 then 200 means two requests and the 200 body.
C6_RetryOncePer429_Amended ==
  /\ []AllIdentical
  /\ [][Once429Then200]_vars
  /\ [][(cpc = "got" /\ resp.status = 429)
          => /\ slept' = Append(slept,
                    IF resp.retryAfter # NoHeader THEN resp.retryAfter
                    ELSE IF helper = "find_raising_later.affinity_get" THEN 2 ELSE 5)
             /\ IF helper = "find_raising_later.affinity_get" /\ Len(sent) = 5
                  THEN sent' = sent /\ cpc' = "ret" /\ ret'.kind = "None"
                  ELSE sent' = Append(sent, req) /\ cpc' = "wait"]_vars

\* a helper has answered a 429-then-200 server
C6_Witness ==
  /\ cpc = "ret" /\ slept = <<7>>
  /\ ret.kind = "json" /\ ret.items # <<>>
  /\ Len(sent) = 2 /\ sent[2] = sent[1]

IsRecursive == AttemptLimit(helper) = 0

TopStartups == "find_top_startups"
AffinityCheck == "affinity_check"
AddToAffinity == "add_to_affinity"
Scripts == {TopStartups, AffinityCheck, AddToAffinity}

\* the GET helper each script uses
GetHelper(sc) == IF sc = AffinityCheck THEN RecursiveGetEmpty ELSE RecursiveGet

LowerStrip(s) == Strip(Lower(s))

\* extract_domain(email) of affinity_check, given the text after the last "@"
\* (the empty text when the email is empty or has no "@")
extract_domain(afterAt) == LowerStrip(afterAt)

\* the domain a script hands to its resolver: find_top_startups passes the host
\* part of the website URL as it is, affinity_check passes
\* extract_domain(email), add_to_affinity the stripped sheet cell
DomainArgument(sc, cell) ==
  IF sc = AffinityCheck THEN extract_domain(cell)
  ELSE IF sc = AddToAffinity THEN Strip(cell)
  ELSE cell

\* the name a script hands to its resolver
NameArgument(sc, cell) == IF sc = AddToAffinity THEN Strip(cell) ELSE cell

\* the term of the domain search: search_org_by_domain lower-cases and strips
\* its argument first
DomainTerm(sc, domain) == IF sc = AffinityCheck THEN LowerStrip(domain) ELSE domain

\* what the result's domain is compared with: domain.lower() in search_org and
\* the inline copies, domain.lower().strip() in search_org_by_domain
DomainKey(sc, domain) == IF sc = AffinityCheck THEN LowerStrip(domain) ELSE Lower(domain)

\* a domain comparison that trusts the search: any result with a domain is taken
DomainMatches_Unchecked(sc, o, domain) == o.domain # <<>>

\* (org.get("domain") or "").lower().strip() == domain.lower()
DomainMatches(sc, o, domain) == LowerStrip(o.domain) = DomainKey(sc, domain)

\* the suffix tokens of affinity_check's normalize_name, which lists
\* inc\. llc\. ltd\. as further alternatives before the optional period
CheckSuffixes ==
  LegalSuffixes \cup { <<"i","n","c",".">>, <<"l","l","c",".">>, <<"l","t","d",".">> }

\* normalize_name of affinity_check
normalize_name_check(nm) ==
  IF nm = <<>> THEN <<>>
  ELSE Strip(SubSpaces(SubPunct(SubSuffix(Strip(Lower(nm)), CheckSuffixes))))

\* normalize_name of check_w26: no suffix is stripped
normalize_name_w26(nm) ==
  IF nm = <<>> THEN <<>>
  ELSE Strip(SubSpaces(SubPunct(Strip(Lower(nm)))))

\* the normalize_name a script defines for itself
NormalizeFor(sc, nm) ==
  IF sc = AffinityCheck THEN normalize_name_check(nm) ELSE normalize_name(nm)

\* normalize_name(org.get("name") or "") == normalize_name(name)
NameMatches(sc, o, nm) == NormalizeFor(sc, o.name) = NormalizeFor(sc, nm)

\* data.get("organizations", []) if isinstance(data, dict) else data, under
\* the guard of the copy: `if data:` before it (search_org, inline copies) or
\* `if not orgs: return None` after it (affinity_check); None, {} and [] all
\* give no organizations
SearchItems(data) == IF data.kind = "json" THEN data.items ELSE <<>>

\* a resolver that falls back to the top hit when nothing matches
FirstMatch_TopHit(ids, matching) ==
  IF \E i \in 1..Len(ids) : ids[i] \in matching
    THEN ids[CHOOSE i \in 1..Len(ids) :
               /\ ids[i] \in matching
               /\ \A j \in 1..(i - 1) : ids[j] \notin matching]
    ELSE IF ids = <<>> THEN 0 ELSE ids[1]

\* for org in orgs: if <match>: return org  -- the first of the returned
\* organizations that is among the matching ones, 0 (None) when there is none
FirstMatch(ids, matching) ==
  IF \E i \in 1..Len(ids) : ids[i] \in matching
    THEN ids[CHOOSE i \in 1..Len(ids) :
               /\ ids[i] \in matching
               /\ \A j \in 1..(i - 1) : ids[j] \notin matching]
    ELSE 0

OrgSearch(term) == [method |-> "GET", ep |-> "/organizations", term |-> term, id |-> 0]
OrgDetail(id) == [method |-> "GET", ep |-> "/organizations/{id}", term |-> <<>>, id |-> id]
OrgListEntries(id) ==
  [method |-> "GET", ep |-> "/organizations/{id}/list-entries", term |-> <<>>, id |-> id]
Notes(id) == [method |-> "GET", ep |-> "/notes", term |-> <<>>, id |-> id]
\* a create call that leaves the domain out of the payload
CreateOrg_NameOnly(nm, domain) ==
  [method |-> "POST", ep |-> "/organizations", term |-> nm \o <<"|">>, id |-> 0]

\* affinity_post("/organizations", {"name": company, "domain": domain}); the
\* payload is kept as name|domain
CreateOrg(nm, domain) ==
  [method |-> "POST", ep |-> "/organizations", term |-> nm \o <<"|">> \o domain, id |-> 0]
AddListEntry(id) ==
  [method |-> "POST", ep |-> "/lists/{id}/list-entries", term |-> <<>>, id |-> id]

\* the row is finished with outcome o; the loop goes to the next row
RowDone(o) ==
  /\ rowsOut' = Append(rowsOut, o)
  /\ idx' = idx + 1
  /\ pc' = "loop"

ClientUntouched == UNCHANGED clientVars

\* the rows (candidates) of one run
MaxRows == 2

\* the company names and domains of the rows
RowNames ==
  { <<>>, <<"A", " ", "c", "o">>, <<"c", " ">>, <<"!">> }
RowDomains ==
  { <<>>, <<"a">>, <<"A">>, <<" ", "a">> }

\* the name search, or the end of the resolution when there is no name
\* (`if name:`, `if not org and company:`)
NameSearchOrNone(nm) ==
  IF nm # <<>>
    THEN /\ Sending(GetHelper(script), OrgSearch(nm), sent)
         /\ pc' = "name"
         /\ UNCHANGED <<slept, apiShape>>
    ELSE /\ pc' = "resolved"
         /\ ClientUntouched

\* search_org(name, domain) is entered (find_top_startups 412-414,
\* affinity_check 202-206, add_to_affinity 78-80): the domain search when there
\* is a domain, else the name search
ResolveStart(nm, domain) ==
  /\ qname' = nm
  /\ qdomain' = domain
  /\ org' = 0
  /\ foundBy' = "none"
  /\ entries' = <<>>
  /\ interaction' = NoInteraction
  /\ IF domain # <<>>
       THEN /\ Sending(GetHelper(script), OrgSearch(DomainTerm(script, domain)), <<>>)
            /\ slept' = <<>>
            /\ pc' = "domain"
            /\ UNCHANGED apiShape
       ELSE IF nm # <<>>
         THEN /\ Sending(GetHelper(script), OrgSearch(nm), <<>>)
              /\ slept' = <<>>
              /\ pc' = "name"
              /\ UNCHANGED apiShape
         ELSE /\ pc' = "resolved"
              /\ helper' = "none" /\ req' = NoRequest
              /\ sent' = <<>> /\ slept' = <<>>
              /\ resp' = NoResponse /\ ret' = NoReturn /\ cpc' = "idle"
              /\ UNCHANGED apiShape

\* find_top_startups, step 4 (lines 734-753): the Lemlist gate, then search_org
TopCandidate ==
  /\ script = TopStartups /\ pc = "loop" /\ idx < MaxRows
  /\ \E nm \in RowNames, domain \in RowDomains, inLemlist \in BOOLEAN :
       IF inLemlist
         THEN /\ RowDone("skip_lemlist")
              /\ UNCHANGED <<qname, qdomain, org, foundBy, entries, interaction>>
              /\ ClientUntouched
         ELSE /\ ResolveStart(NameArgument(script, nm), DomainArgument(script, domain))
              /\ UNCHANGED <<idx, rowsOut>>
  /\ UNCHANGED script

\* affinity_check, lines 188-206: every row is looked up
CheckRow ==
  /\ script = AffinityCheck /\ pc = "loop" /\ idx < MaxRows
  /\ \E nm \in RowNames, afterAt \in RowDomains :
       ResolveStart(NameArgument(script, nm), DomainArgument(script, afterAt))
  /\ UNCHANGED <<script, idx, rowsOut>>

\* add_to_affinity, lines 68-88: rows without a company name are skipped
AddRow ==
  /\ script = AddToAffinity /\ pc = "loop" /\ idx < MaxRows
  /\ \E nm \in RowNames, domain \in RowDomains :
       IF NameArgument(script, nm) = <<>>
         THEN /\ RowDone("no_company")
              /\ UNCHANGED <<qname, qdomain, org, foundBy, entries, interaction>>
              /\ ClientUntouched
         ELSE /\ ResolveStart(NameArgument(script, nm), DomainArgument(script, domain))
              /\ UNCHANGED <<idx, rowsOut>>
  /\ UNCHANGED script

\* a resolver without the early return: the name search follows a domain hit too
DomainResult_NameToo ==
  /\ pc = "domain" /\ cpc = "ret"
  /\ LET matching == { o \in OrgIds : DomainMatches(script, OrgPool[o], qdomain) }
         hit == FirstMatch(SearchItems(ret), matching)
     IN  /\ org' = hit
         /\ foundBy' = IF hit # 0 THEN "domain" ELSE "none"
         /\ NameSearchOrNone(qname)
  /\ UNCHANGED <<script, idx, qname, qdomain, entries, interaction, rowsOut>>

\* the domain search has returned: the first organization with the same
\* domain is the result, else the name search follows
DomainResult ==
  /\ pc = "domain" /\ cpc = "ret"
  /\ LET matching == { o \in OrgIds : DomainMatches(script, OrgPool[o], qdomain) }
         hit == FirstMatch(SearchItems(ret), matching)
     IN  IF hit # 0
           THEN /\ org' = hit
                /\ foundBy' = "domain"
                /\ pc' = "resolved"
                /\ ClientUntouched
           ELSE /\ NameSearchOrNone(qname)
                /\ UNCHANGED <<org, foundBy>>
  /\ UNCHANGED <<script, idx, qname, qdomain, entries, interaction, rowsOut>>

\* the name search has returned: the first organization with the same
\* normalized name is the result, else None
NameResult ==
  /\ pc = "name" /\ cpc = "ret"
  /\ LET matching == { o \in OrgIds : NameMatches(script, OrgPool[o], qname) }
         hit == FirstMatch(SearchItems(ret), matching)
     IN  /\ org' = hit
         /\ foundBy' = IF hit # 0 THEN "name" ELSE "none"
  /\ pc' = "resolved"
  /\ ClientUntouched
  /\ UNCHANGED <<script, idx, qname, qdomain, entries, interaction, rowsOut>>

\* for entry in list_entries: if entry.get("list_id") == TARGET_LIST_ID
OnTargetList(listIds) == \E i \in 1..Len(listIds) : listIds[i] = TARGET_LIST_ID

OnTarget == [has |-> TRUE, reason |-> "On 1a Sourcing List", n |-> 0]
HasNotes(k) == [has |-> TRUE, reason |-> "N notes", n |-> k]
OnOtherList == [has |-> TRUE, reason |-> "On other Affinity list", n |-> 0]

\* find_top_startups 753-767: `if org:` has_any_interaction is called, which
\* starts with the organization detail request; else the item is kept
TopAfterResolve ==
  /\ script = TopStartups /\ pc = "resolved"
  /\ IF org # 0
       THEN /\ Sending(GetHelper(script), OrgDetail(org), sent)
            /\ pc' = "detail"
            /\ UNCHANGED <<slept, apiShape, idx, rowsOut>>
       ELSE /\ RowDone("ok_new")
            /\ ClientUntouched
  /\ UNCHANGED <<script, qname, qdomain, org, foundBy, entries, interaction>>

\* has_any_interaction 431-438: no detail, no interaction; an entry on the
\* target list decides; else the notes are requested
HasInteractionDetail ==
  /\ script = TopStartups /\ pc = "detail" /\ cpc = "ret"
  /\ IF ~Truthy(ret)
       THEN /\ interaction' = NoInteraction
            /\ entries' = <<>>
            /\ RowDone("ok")
            /\ ClientUntouched
       ELSE /\ entries' = ret.items
            /\ IF OnTargetList(ret.items)
                 THEN /\ interaction' = OnTarget
                      /\ RowDone("skip")
                      /\ ClientUntouched
                 ELSE /\ Sending(GetHelper(script), Notes(org), sent)
                      /\ pc' = "notes"
                      /\ UNCHANGED <<slept, apiShape, idx, rowsOut, interaction>>
  /\ UNCHANGED <<script, qname, qdomain, org, foundBy>>

\* a has_any_interaction that looks at the other lists before the notes
HasInteractionNotes_ListsFirst ==
  /\ script = TopStartups /\ pc = "notes" /\ cpc = "ret"
  /\ LET note_list == IF Truthy(ret) THEN ret.items ELSE <<>>
         result == IF entries # <<>> THEN OnOtherList
                   ELSE IF note_list # <<>> THEN HasNotes(Len(note_list))
                   ELSE NoInteraction
     IN  /\ interaction' = result
         /\ RowDone(IF result.has THEN "skip" ELSE "ok")
  /\ ClientUntouched
  /\ UNCHANGED <<script, qname, qdomain, org, foundBy, entries>>

\* has_any_interaction 439-445 and the caller's `if has_interaction`
HasInteractionNotes ==
  /\ script = TopStartups /\ pc = "notes" /\ cpc = "ret"
  /\ LET note_list == IF Truthy(ret) THEN ret.items ELSE <<>>
         result == IF note_list # <<>> THEN HasNotes(Len(note_list))
                   ELSE IF entries # <<>> THEN OnOtherList
                   ELSE NoInteraction
     IN  /\ interaction' = result
         /\ RowDone(IF result.has THEN "skip" ELSE "ok")
  /\ ClientUntouched
  /\ UNCHANGED <<script, qname, qdomain, org, foundBy, entries>>

\* affinity_check 208-236: a found organization is looked up on the target
\* list, an unknown one gives the row "Not found in Affinity"
CheckAfterResolve ==
  /\ script = AffinityCheck /\ pc = "resolved"
  /\ IF org # 0
       THEN /\ Sending(GetHelper(script), OrgListEntries(org), sent)
            /\ pc' = "inlist"
            /\ UNCHANGED <<slept, apiShape, idx, rowsOut>>
       ELSE /\ RowDone("not_found")
            /\ ClientUntouched
  /\ UNCHANGED <<script, qname, qdomain, org, foundBy, entries, interaction>>

\* is_org_in_list 104-114: data if isinstance(data, list) else
\* data.get("list_entries", []) -- a None here has no .get and raises
IsOrgInList ==
  /\ script = AffinityCheck /\ pc = "inlist" /\ cpc = "ret"
  /\ IF ret.kind = "None"
       THEN /\ pc' = "crashed"
            /\ UNCHANGED <<idx, rowsOut, entries>>
       ELSE /\ entries' = ret.items
            /\ RowDone(IF OnTargetList(ret.items) THEN "in_list" ELSE "not_on_list")
  /\ ClientUntouched
  /\ UNCHANGED <<script, qname, qdomain, org, foundBy, interaction>>

\* add_to_affinity 97-111: no organization, so one is created; then the
\* detail of the organization is requested
AddAfterResolve ==
  /\ script = AddToAffinity /\ pc = "resolved"
  /\ IF org = 0
       THEN /\ Sending(RecursivePost, CreateOrg(qname, qdomain), sent)
            /\ pc' = "create"
       ELSE /\ Sending(GetHelper(script), OrgDetail(org), sent)
            /\ pc' = "detail"
  /\ UNCHANGED <<slept, apiShape>>
  /\ UNCHANGED <<script, idx, qname, qdomain, org, foundBy, entries, interaction, rowsOut>>

\* add_to_affinity 99-111: the created organization is the response body; a
\* failed creation fails the row
AddCreated ==
  /\ script = AddToAffinity /\ pc = "create" /\ cpc = "ret"
  /\ IF ret.status \in {200, 201}
       THEN /\ org' = ret.items[1]
            /\ foundBy' = "created"
            /\ Sending(GetHelper(script), OrgDetail(ret.items[1]), sent)
            /\ pc' = "detail"
            /\ UNCHANGED <<slept, apiShape, idx, rowsOut>>
       ELSE /\ RowDone("failed")
            /\ ClientUntouched
            /\ UNCHANGED <<org, foundBy>>
  /\ UNCHANGED <<script, qname, qdomain, entries, interaction>>

\* add_to_affinity 113-131: on the list already, or the list entry is posted
AddDetail ==
  /\ script = AddToAffinity /\ pc = "detail" /\ cpc = "ret"
  /\ entries' = IF Truthy(ret) THEN ret.items ELSE <<>>
  /\ IF Truthy(ret) /\ OnTargetList(ret.items)
       THEN /\ RowDone("already")
            /\ ClientUntouched
       ELSE /\ Sending(RecursivePost, AddListEntry(org), sent)
            /\ pc' = "entry"
            /\ UNCHANGED <<slept, apiShape, idx, rowsOut>>
  /\ UNCHANGED <<script, qname, qdomain, org, foundBy, interaction>>

\* add_to_affinity 124-131: the answer to the list-entries POST
AddEntry ==
  /\ script = AddToAffinity /\ pc = "entry" /\ cpc = "ret"
  /\ RowDone(IF ret.status \in {200, 201} THEN "added" ELSE "failed")
  /\ ClientUntouched
  /\ UNCHANGED <<script, qname, qdomain, org, foundBy, entries, interaction>>

\* the loop over the rows ends
RunEnd ==
  /\ script \in Scripts /\ pc = "loop"
  /\ pc' = "done"
  /\ ClientUntouched
  /\ UNCHANGED <<script, idx, qname, qdomain, org, foundBy, entries, interaction, rowsOut>>

(***************************************************************************)
(* One run of a script against an arbitrary CRM                              *)
(***************************************************************************)
CrmInit ==
  /\ NormIdle
  /\ ScoreIdle
  /\ ExtrasIdle
  /\ script \in Scripts
  /\ apiShape \in Shapes
  /\ helper = "none" /\ req = NoRequest /\ sent = <<>> /\ slept = <<>>
  /\ resp = NoResponse /\ ret = NoReturn /\ cpc = "idle"
  /\ idx = 0 /\ qname = <<>> /\ qdomain = <<>> /\ pc = "loop"
  /\ org = 0 /\ foundBy = "none" /\ entries = <<>>
  /\ interaction = NoInteraction /\ rowsOut = <<>>

CrmNext ==
  \/ TopCandidate /\ UNCHANGED <<normVars, scoreVars, extraVars>>
  \/ CheckRow /\ UNCHANGED <<normVars, scoreVars, extraVars>>
  \/ AddRow /\ UNCHANGED <<normVars, scoreVars, extraVars>>
  \/ ServerRespond /\ UNCHANGED <<normVars, scriptVars, scoreVars, extraVars>>
  \/ HelperReturn /\ UNCHANGED <<normVars, scriptVars, scoreVars, extraVars>>
  \/ DomainResult /\ UNCHANGED <<normVars, scoreVars, extraVars>>
  \/ NameResult /\ UNCHANGED <<normVars, scoreVars, extraVars>>
  \/ TopAfterResolve /\ UNCHANGED <<normVars, scoreVars, extraVars>>
  \/ HasInteractionDetail /\ UNCHANGED <<normVars, scoreVars, extraVars>>
  \/ HasInteractionNotes /\ UNCHANGED <<normVars, scoreVars, extraVars>>
  \/ CheckAfterResolve /\ UNCHANGED <<normVars, scoreVars, extraVars>>
  \/ IsOrgInList /\ UNCHANGED <<normVars, scoreVars, extraVars>>
  \/ AddAfterResolve /\ UNCHANGED <<normVars, scoreVars, extraVars>>
  \/ AddCreated /\ UNCHANGED <<normVars, scoreVars, extraVars>>
  \/ AddDetail /\ UNCHANGED <<normVars, scoreVars, extraVars>>
  \/ AddEntry /\ UNCHANGED <<normVars, scoreVars, extraVars>>
  \/ RunEnd /\ UNCHANGED <<normVars, scoreVars, extraVars>>

SpecCrm == CrmInit /\ [][CrmNext]_vars

(***************************************************************************)
(* Claims about the resolver and the interaction check                       *)
(***************************************************************************)
\* the organizations the search in hand returned
Returned ==
  IF req.ep = "/organizations" /\ req.method = "GET"
    THEN { SearchItems(ret)[i] : i \in 1..Len(SearchItems(ret)) }
    ELSE {}

\* C1: the resolver never falls back to a best guess: its result is None or
\* one of the returned organizations whose lower-cased, trimmed domain equals
\* the (lower-cased, trimmed) query domain or whose normalized name equals the
\* normalized query name; without a domain and without a returned
\* organization of equal normalized name the result is None.
C1_NoBestGuess ==
  pc = "resolved" =>
    /\ \/ org = 0
       \/ /\ org \in Returned
          /\ \/ /\ qdomain # <<>>
                /\ LowerStrip(OrgPool[org].domain) = LowerStrip(qdomain)
             \/ /\ qname # <<>>
                /\ NormalizeFor(script, OrgPool[org].name) = NormalizeFor(script, qname)
    /\ ( /\ qdomain = <<>>
         /\ \A o \in Returned :
              NormalizeFor(script, OrgPool[o].name) # NormalizeFor(script, qname) )
       => org = 0

\* the top hit of a name search does not match and None is returned
C1_Witness ==
  /\ pc = "resolved" /\ qdomain = <<>> /\ qname # <<>>
  /\ ret.kind = "json" /\ ret.items # <<>>
  /\ org = 0

\* the domain search returned an organization whose domain is the query domain
ExactDomainHit ==
  \E i \in 1..Len(SearchItems(ret)) :
    LowerStrip(OrgPool[SearchItems(ret)[i]].domain) = qdomain

\* C2: when the domain search returns an organization with an exactly
\* matching domain, an organization with that domain is returned and no name
\* search is issued; a name search is issued only when no domain was given or
\* after a domain search without such an organization.
C2_DomainBeforeName ==
  /\ []((pc = "resolved" /\ foundBy = "domain")
          => /\ Len(sent) = 1
             /\ sent[1] = OrgSearch(DomainTerm(script, qdomain)))
  /\ [][(pc = "domain" /\ cpc = "ret" /\ ExactDomainHit)
          => /\ pc' = "resolved"
             /\ org' # 0
             /\ LowerStrip(OrgPool[org'].domain) = qdomain
             /\ sent' = sent]_vars
  /\ [][(pc' = "name")
          => \/ pc = "name"
             \/ pc = "loop" /\ qdomain' = <<>>
             \/ pc = "domain" /\ cpc = "ret" /\ ~ExactDomainHit]_vars

\* a row with a domain and a name, resolved by its domain with one request
C2_Witness ==
  /\ pc = "resolved" /\ foundBy = "domain"
  /\ qname # <<>> /\ qdomain # <<>>
  /\ Len(sent) = 1

\* C3 as stated: a result is accepted on the domain path only if its domain,
\* lower-cased and trimmed, equals the input domain exactly, whatever the
\* input domain is.
C3_DomainExact ==
  (pc = "resolved" /\ foundBy = "domain")
    => LowerStrip(OrgPool[org].domain) = qdomain

\* C3 as amended: a result is accepted on the domain path only if its domain,
\* lower-cased and trimmed, equals the input domain lower-cased (search_org
\* and the inline copy of add_to_affinity) or lower-cased and trimmed
\* (search_org_by_domain).
C3_DomainExact_Amended ==
  (pc = "resolved" /\ foundBy = "domain")
    => LowerStrip(OrgPool[org].domain) =
         (IF script = "affinity_check" THEN Strip(Lower(qdomain)) ELSE Lower(qdomain))

\* an input domain with an upper-case letter is resolved by its domain
C3_Witness ==
  /\ pc = "resolved" /\ foundBy = "domain"
  /\ qdomain # Lower(qdomain)

\* the helper returned its failure marker
FailedRet == cpc = "ret" /\ ret \in {ReturnNone, ReturnEmptyDict}

\* C7: for a response that is neither 429 nor 2xx the GET helper returns None
\* or {} without raising, and the caller goes on as if the lookup had found
\* nothing: no match, no list entry, no note; the run never aborts.
C7_FailureIsNoData ==
  /\ [](pc # "crashed")
  /\ [][(cpc = "got" /\ resp.status \notin {200, 201, 429} /\ req.method = "GET")
          => /\ cpc' = "ret"
             /\ ret' \in {ReturnNone, ReturnEmptyDict}]_vars
  /\ [][(FailedRet /\ pc \in {"domain", "name"})
          => /\ org' = 0
             /\ pc' = IF pc = "domain" /\ qname # <<>> THEN "name" ELSE "resolved"]_vars
  /\ [][(FailedRet /\ pc \in {"detail", "notes"} /\ script = "find_top_startups")
          => /\ pc' = "loop" /\ idx' = idx + 1
             /\ interaction' = IF pc = "notes" /\ entries # <<>>
                                 THEN OnOtherList ELSE NoInteraction]_vars
  /\ [][(FailedRet /\ pc = "inlist")
          => /\ pc' = "loop" /\ idx' = idx + 1
             /\ rowsOut' = Append(rowsOut, "not_on_list")]_vars
  /\ [][(FailedRet /\ pc = "detail" /\ script = "add_to_affinity")
          => pc' = "entry"]_vars

\* a lookup failed and the loop is at its next row
C7_Witness ==
  /\ pc = "loop" /\ idx = 1 /\ idx < MaxRows
  /\ FailedRet

\* has_any_interaction has decided about the organization of the last row
Decided ==
  /\ script = "find_top_startups" /\ pc \in {"loop", "done"}
  /\ cpc = "ret" /\ req.ep \in {"/organizations/{id}", "/notes"}

\* the notes the notes request returned (none when it was not made or failed)
NotesSeen == IF req.ep = "/notes" /\ ret.kind = "json" THEN Len(ret.items) ELSE 0

\* C8: has_any_interaction decides in priority order: an entry on the target
\* list gives (True, target-list reason) without regard to notes; else N >= 1
\* notes give (True, "N notes"); else any list entry gives (True, other-list
\* reason); else (False, "").
C8_InteractionPriority ==
  Decided =>
    IF \E i \in 1..Len(entries) : entries[i] = TARGET_LIST_ID
      THEN interaction = [has |-> TRUE, reason |-> "On 1a Sourcing List", n |-> 0]
    ELSE IF NotesSeen >= 1
      THEN interaction = [has |-> TRUE, reason |-> "N notes", n |-> NotesSeen]
    ELSE IF entries # <<>>
      THEN interaction = [has |-> TRUE, reason |-> "On other Affinity list", n |-> 0]
    ELSE interaction = [has |-> FALSE, reason |-> "", n |-> 0]

\* an organization on another list with two notes: the notes give the reason
C8_Witness ==
  /\ Decided /\ entries # <<>> /\ NotesSeen = 2
  /\ interaction.reason = "N notes"

\* C26: has_any_interaction returns (False, "") only when the organization
\* has no list entries and no notes: it is not returned when the detail or the
\* notes request failed, so that no row passes the gate because a request
\* failed.
C26_NoFailOpen ==
  (Decided /\ interaction = NoInteraction)
    => /\ req.ep = "/notes" /\ ret.kind = "json" /\ ret.items = <<>>
       /\ entries = <<>>

\* C27: the name path accepts an organization only on a non-empty key: a
\* query whose normalized form is empty never matches an organization whose
\* name is missing or normalizes to the empty string.
C27_NonEmptyKey ==
  (script \in {TopStartups, AddToAffinity} /\ pc = "resolved" /\ foundBy = "name")
    => /\ NormalizeFor(script, qname) # <<>>
       /\ NormalizeFor(script, OrgPool[org].name) # <<>>

\* the POST requests of the current row to endpoint ep
PostsTo(ep) == { i \in 1..Len(sent) : sent[i].method = "POST" /\ sent[i].ep = ep }

\* C28: add_to_affinity posts the list entry only for an organization that the
\* detail request showed not to be on the target list, whatever the CRM answers
\* (failed GETs included), and issues at most one list-entries POST and at
\* most one create-organization POST per row.
C28_NoDuplicateMembership ==
  /\ [][(script = AddToAffinity /\ pc # "entry" /\ pc' = "entry")
          => (Truthy(ret) /\ ~OnTargetList(ret.items))]_vars
  /\ [](script = AddToAffinity
          => /\ Cardinality(PostsTo("/lists/{id}/list-entries")) <= 1
             /\ Cardinality(PostsTo("/organizations")) <= 1)

(***************************************************************************)
(* The scoring heuristics                                                    *)
(***************************************************************************)
RaisingStartups == "find_raising_startups"
Scorers == {TopStartups, RaisingStartups}

\* min(a, b)
Min2(a, b) == IF a <= b THEN a ELSE b

\* p points; scores are kept in tenths of a point, so that wt_pct / 10 and
\* li_pct / 5 are exact for every whole percentage
Pts(p) == p * 10

\* `if x and x > 0` for an optional number
Positive(f) == f # Absent /\ f[1] > 0

\* headcount growth without the caps
HeadcountGrowth_Uncapped(sc, c) ==
  (IF Positive(c.hc180) THEN Pts(c.hc180[1] * (IF sc = TopStartups THEN 5 ELSE 4)) ELSE 0)
  + (IF Positive(c.hc90) THEN Pts(c.hc90[1] * 8) ELSE 0)

\* find_top_startups: min(hc_change * 5, 25) and min(hc_change_90 * 8, 25);
\* find_raising_startups: min(hc_change_90 * 8, 25) and min(hc_change * 4, 15)
HeadcountGrowth(sc, c) ==
  (IF Positive(c.hc180)
     THEN (IF sc = TopStartups THEN Min2(Pts(c.hc180[1] * 5), Pts(25))
                               ELSE Min2(Pts(c.hc180[1] * 4), Pts(15)))
     ELSE 0)
  + (IF Positive(c.hc90) THEN Min2(Pts(c.hc90[1] * 8), Pts(25)) ELSE 0)

\* min(wt_pct / 10, 20): wt_pct / 10 points are wt_pct tenths
TrafficGrowth(c) == IF Positive(c.wt_pct) THEN Min2(c.wt_pct[1], Pts(20)) ELSE 0

\* min(li_pct / 5, 15): li_pct / 5 points are 2 * li_pct tenths
FollowerGrowth(c) == IF Positive(c.li_pct) THEN Min2(c.li_pct[1] * 2, Pts(15)) ELSE 0

\* min(len(highlights) * 3, 15) / min(len(highlights) * 2, 10)
HighlightCount(sc, c) ==
  IF sc = TopStartups THEN Min2(Pts(Len(c.highlights) * 3), Pts(15))
                      ELSE Min2(Pts(Len(c.highlights) * 2), Pts(10))

\* the stealth emergence date, as the days since it
Emergence(sc, c) ==
  IF c.days_ago = Absent THEN 0
  ELSE LET d == c.days_ago[1]
       IN  IF sc = TopStartups
             THEN (IF d < 90 THEN Pts(20) ELSE IF d < 180 THEN Pts(15)
                   ELSE IF d < 365 THEN Pts(10) ELSE 0)
             ELSE (IF d < 60 THEN Pts(25) ELSE IF d < 120 THEN Pts(20)
                   ELSE IF d < 180 THEN Pts(15) ELSE IF d < 365 THEN Pts(8) ELSE 0)

\* funding.get("funding_total") or 0
FundingTotal(c) == IF c.funding_total = Absent THEN 0 ELSE c.funding_total[1]

\* the truth value of a headcount field: None and 0 are falsy, a dict is not
CountTruthy(h) == h.kind = "dict" \/ (h.kind = "int" /\ h.v # 0)

\* company.get("headcount") or company.get("corrected_headcount") or 1, and
\* for a dict its latest_metric_value or 1
Headcount(c) ==
  LET h == IF CountTruthy(c.headcount) THEN c.headcount
           ELSE IF CountTruthy(c.corrected_headcount) THEN c.corrected_headcount
           ELSE [kind |-> "int", v |-> 1]
  IN  IF h.kind = "dict" THEN (IF h.v # 0 THEN h.v ELSE 1) ELSE h.v

\* team but low funding / no funding but building a team
NeedsCapital(sc, c) ==
  (IF Headcount(c) > 3 /\ FundingTotal(c) < 2000000
     THEN (IF sc = TopStartups THEN Pts(10) ELSE Pts(12)) ELSE 0)
  + (IF FundingTotal(c) = 0 /\ Headcount(c) > 2 THEN Pts(15) ELSE 0)

\* if year and year >= 2024: 10  elif year and year >= 2023: 5
FoundingYear(c) ==
  IF c.year = Absent \/ c.year[1] = 0 THEN 0
  ELSE IF c.year[1] >= 2024 THEN Pts(10)
  ELSE IF c.year[1] >= 2023 THEN Pts(5)
  ELSE 0

\* the sweet spot of find_top_startups
SweetSpot(c) ==
  IF 1000000 <= FundingTotal(c) /\ FundingTotal(c) <= 5000000 /\ Headcount(c) > 5
    THEN Pts(15)
  ELSE IF FundingTotal(c) < 1000000 /\ Headcount(c) > 3 THEN Pts(10)
  ELSE 0

\* find_top_startups
compute_raise_score(c) ==
  HeadcountGrowth(TopStartups, c) + TrafficGrowth(c) + FollowerGrowth(c)
  + HighlightCount(TopStartups, c) + Emergence(TopStartups, c)
  + NeedsCapital(TopStartups, c) + FoundingYear(c) + SweetSpot(c)

\* find_raising_startups
compute_raising_score(c) ==
  HeadcountGrowth(RaisingStartups, c) + TrafficGrowth(c) + FollowerGrowth(c)
  + Emergence(RaisingStartups, c) + NeedsCapital(RaisingStartups, c)
  + HighlightCount(RaisingStartups, c) + FoundingYear(c)

RaiseScore(sc, c) ==
  IF sc = TopStartups THEN compute_raise_score(c) ELSE compute_raising_score(c)

\* FOUNDER_HIGHLIGHT_SCORES.get(category, 0)
FOUNDER_HIGHLIGHT_SCORES(category) ==
  CASE category = "Prior Exit" -> 25
    [] category = "Prior VC Backed Founder" -> 20
    [] category = "YC Backed Founder" -> 20
    [] category = "Seasoned Founder" -> 18
    [] category = "Top University" -> 12
    [] category = "Top Company Alum" -> 10
    [] category = "Major Tech Company Experience" -> 8
    [] category = "Deep Technical Background" -> 10
    [] category = "Top AI Experience" -> 12
    [] category = "Elite Industry Experience" -> 8
    [] category = "Major Research Institution Experience" -> 8
    [] category = "Seasoned Executive" -> 8
    [] category = "Seasoned Operator" -> 6
    [] category = "$50M+ Club" -> 20
    [] category = "$45M Club" -> 18
    [] category = "$40M Club" -> 16
    [] category = "$35M Club" -> 14
    [] category = "$20M Club" -> 12
    [] category = "$15M Club" -> 10
    [] category = "$10M Club" -> 8
    [] category = "$5M Club" -> 5
    [] OTHER -> 0

\* the loop over all_highlights with its seen_categories
RECURSIVE FounderLoop(_, _, _)
FounderLoop(hs, seen, score) ==
  IF hs = <<>> THEN score
  ELSE LET category == Head(hs)
           weight == FOUNDER_HIGHLIGHT_SCORES(category)
       IN  IF category \in seen THEN FounderLoop(Tail(hs), seen, score)
           ELSE IF weight > 0
             THEN FounderLoop(Tail(hs), seen \cup {category}, score + weight)
             ELSE FounderLoop(Tail(hs), seen, score)

\* compute_founder_score of find_raising_startups (the score of the pair)
compute_founder_score(c) == FounderLoop(c.employee_highlights \o c.highlights, {}, 0)

\* the founder score of a company record; find_top_startups scores person
\* records instead, which are not part of the company record
FounderScore(sc, c) == IF sc = RaisingStartups THEN compute_founder_score(c) ELSE 0

(***************************************************************************)
(* Scoring a company record, and the record with one signal raised           *)
(***************************************************************************)
\* the changes made to one record
MaxEdits == 2

ChangeValues == {-2, 0, 1, 3, 4, 1000}
PercentValues == {-5, 0, 15, 100, 150, 1000}
HeadcountValues == {0, 1, 3, 4, 6}
YearValues == {2022, 2023, 2024}
Categories == {"Prior Exit", "Top University", "Unicorn"}

\* a young company: few signals, a headcount of 0 next to a corrected headcount
SparseCompany ==
  [ EmptyCompany EXCEPT
      !.hc90 = Some(1), !.hc180 = Some(-2), !.wt_pct = Some(15), !.li_pct = Some(0),
      !.funding_total = Some(0),
      !.headcount = [kind |-> "int", v |-> 0],
      !.corrected_headcount = [kind |-> "int", v |-> 10],
      !.year = Some(2022) ]

\* a company with every signal, most of them beyond their caps
RichCompany ==
  [ hc90 |-> Some(4), hc180 |-> Some(1000), wt_pct |-> Some(1000), li_pct |-> Some(150),
    highlights |-> <<"Unicorn", "Unicorn", "Top University", "Unicorn", "Prior Exit">>,
    employee_highlights |-> <<"Prior Exit", "Prior Exit", "Top University">>,
    days_ago |-> Some(30), funding_total |-> Some(3000000),
    headcount |-> [kind |-> "dict", v |-> 6], corrected_headcount |-> NoCount,
    year |-> Some(2023) ]

BaseCompanies == {EmptyCompany, SparseCompany, RichCompany}

ScoreInit ==
  /\ NormIdle
  /\ ExtrasIdle
  /\ ClientIdle
  /\ ScriptIdle
  /\ scorer \in Scorers
  /\ company \in BaseCompanies
  /\ raise = 0
  /\ founder = 0
  /\ prev = NoPrev
  /\ edits = 0
  /\ spc = "input"

\* the record is scored
ScoreCompany ==
  /\ spc = "input"
  /\ raise' = RaiseScore(scorer, company)
  /\ founder' = FounderScore(scorer, company)
  /\ spc' = "scored"
  /\ UNCHANGED <<scorer, company, prev, edits>>

\* the record c, which differs from the scored one in signal sig, is scored
Rescore(c, sig) ==
  /\ spc = "scored" /\ edits < MaxEdits
  /\ company' = c
  /\ prev' = [raise |-> raise, founder |-> founder, signal |-> sig]
  /\ raise' = RaiseScore(scorer, c)
  /\ founder' = FounderScore(scorer, c)
  /\ edits' = edits + 1
  /\ UNCHANGED <<scorer, spc>>

\* a larger 90-day or 180-day headcount change
IncreaseHeadcountChange ==
  \/ /\ company.hc90 # Absent
     /\ \E v \in ChangeValues :
          v > company.hc90[1] /\ Rescore([company EXCEPT !.hc90 = Some(v)], "hc90")
  \/ /\ company.hc180 # Absent
     /\ \E v \in ChangeValues :
          v > company.hc180[1] /\ Rescore([company EXCEPT !.hc180 = Some(v)], "hc180")

\* a larger web-traffic or follower percent change
IncreasePercentChange ==
  \/ /\ company.wt_pct # Absent
     /\ \E v \in PercentValues :
          v > company.wt_pct[1] /\ Rescore([company EXCEPT !.wt_pct = Some(v)], "wt_pct")
  \/ /\ company.li_pct # Absent
     /\ \E v \in PercentValues :
          v > company.li_pct[1] /\ Rescore([company EXCEPT !.li_pct = Some(v)], "li_pct")

\* one more highlight entry, of the company or of an employee
AddHighlight ==
  \E category \in Categories :
    \/ Rescore([company EXCEPT !.highlights = Append(@, category)], "highlights")
    \/ Rescore([company EXCEPT !.employee_highlights = Append(@, category)],
               "employee_highlights")

\* a larger headcount (a number, or the latest_metric_value of a dict)
IncreaseHeadcount ==
  /\ company.headcount.kind # "none"
  /\ \E v \in HeadcountValues :
       /\ v > company.headcount.v
       /\ Rescore([company EXCEPT !.headcount.v = v], "headcount")

\* a later founding year
IncreaseYear ==
  /\ company.year # Absent
  /\ \E v \in YearValues :
       v > company.year[1] /\ Rescore([company EXCEPT !.year = Some(v)], "year")

\* the record without one of its metrics (the key is absent)
RemoveMetric ==
  \/ company.hc90 # Absent
       /\ Rescore([company EXCEPT !.hc90 = Absent], "no hc90")
  \/ company.hc180 # Absent
       /\ Rescore([company EXCEPT !.hc180 = Absent], "no hc180")
  \/ company.wt_pct # Absent
       /\ Rescore([company EXCEPT !.wt_pct = Absent], "no wt_pct")
  \/ company.li_pct # Absent
       /\ Rescore([company EXCEPT !.li_pct = Absent], "no li_pct")
  \/ company.highlights # <<>>
       /\ Rescore([company EXCEPT !.highlights = <<>>], "no highlights")
  \/ company.days_ago # Absent
       /\ Rescore([company EXCEPT !.days_ago = Absent], "no days_ago")
  \/ company.funding_total # Absent
       /\ Rescore([company EXCEPT !.funding_total = Absent], "no funding_total")
  \/ company.headcount # NoCount
       /\ Rescore([company EXCEPT !.headcount = NoCount], "no headcount")
  \/ company.year # Absent
       /\ Rescore([company EXCEPT !.year = Absent], "no year")

ScoreNext ==
  \/ ScoreCompany /\ UNCHANGED <<normVars, clientVars, scriptVars, extraVars>>
  \/ RemoveMetric /\ UNCHANGED <<normVars, clientVars, scriptVars, extraVars>>
  \/ IncreaseHeadcountChange /\ UNCHANGED <<normVars, clientVars, scriptVars, extraVars>>
  \/ IncreasePercentChange /\ UNCHANGED <<normVars, clientVars, scriptVars, extraVars>>
  \/ AddHighlight /\ UNCHANGED <<normVars, clientVars, scriptVars, extraVars>>
  \/ IncreaseHeadcount /\ UNCHANGED <<normVars, clientVars, scriptVars, extraVars>>
  \/ IncreaseYear /\ UNCHANGED <<normVars, clientVars, scriptVars, extraVars>>

SpecScore == ScoreInit /\ [][ScoreNext]_vars

(***************************************************************************)
(* Claims about the scores                                                   *)
(***************************************************************************)
\* what a factor adds: the score of the record less the score of the record
\* without the factor's metric
Contribution(without) == raise - RaiseScore(scorer, without)

\* C9: no capped factor adds more than its cap: the 90-day headcount change at
\* most 25 (a change of 1000 gives 25), the 180-day change at most 25
\* (find_top_startups) or 15 (find_raising_startups), web-traffic growth at
\* most 20, follower growth at most 15, the highlight count at most 15 or 10.
C9_FactorCaps ==
  spc = "scored" =>
    /\ Contribution([company EXCEPT !.hc90 = <<>>]) <= 250
    /\ company.hc90 = <<1000>> => Contribution([company EXCEPT !.hc90 = <<>>]) = 250
    /\ Contribution([company EXCEPT !.hc180 = <<>>])
         <= (IF scorer = "find_top_startups" THEN 250 ELSE 150)
    /\ Contribution([company EXCEPT !.wt_pct = <<>>]) <= 200
    /\ Contribution([company EXCEPT !.li_pct = <<>>]) <= 150
    /\ Contribution([company EXCEPT !.highlights = <<>>])
         <= (IF scorer = "find_top_startups" THEN 150 ELSE 100)

\* a scored record with a 90-day change of 1000 and six highlights
C9_Witness ==
  /\ spc = "scored"
  /\ company.hc90 = <<1000>>
  /\ Len(company.highlights) = 6
  /\ company.wt_pct = <<1000>>

\* C10: raising one positive signal of a record (a headcount change, a traffic
\* or follower percent change, the headcount, the founding year) or adding a
\* highlight entry, everything else unchanged, never lowers the raise score or
\* the founder score.
C10_Monotonic ==
  (spc = "scored" /\ prev.signal \in {"hc90", "hc180", "wt_pct", "li_pct", "highlights",
                                       "employee_highlights", "headcount", "year"})
    => /\ raise >= prev.raise
       /\ founder >= prev.founder

\* C11: a missing metric contributes nothing to the raise score: the record
\* without one of its metrics (the funding total and the headcount included)
\* never scores higher than the record with it, and a record without any
\* metric scores 0.
C11_MissingIsZero ==
  /\ (spc = "scored" /\ prev.signal \in {"no hc90", "no hc180", "no wt_pct", "no li_pct",
                                          "no highlights", "no days_ago",
                                          "no funding_total", "no headcount", "no year"})
       => raise <= prev.raise
  /\ (spc = "scored" /\ company = EmptyCompany) => raise = 0

(***************************************************************************)
(* The normalizer applied to its inputs                                      *)
(***************************************************************************)
NormInit ==
  /\ ClientIdle
  /\ ScriptIdle
  /\ ScoreIdle
  /\ ExtrasIdle
  /\ name \in Names
  /\ other = <<>>
  /\ key = <<>>
  /\ otherKey = <<>>
  /\ rekey = <<>>
  /\ copyKeys = NoCopyKeys
  /\ npc = "input"

\* key = normalize_name(name), and the keys of the copies in check_w26 and
\* affinity_check
NormalizeName ==
  /\ npc = "input"
  /\ key' = normalize_name(name)
  /\ copyKeys' = [check_w26 |-> normalize_name_w26(name),
                  affinity_check |-> normalize_name_check(name)]
  /\ npc' = "key"
  /\ UNCHANGED <<name, other, otherKey, rekey, clientVars, scriptVars, scoreVars, extraVars>>

\* the key normalized again
NormalizeKey ==
  /\ npc = "key"
  /\ rekey' = normalize_name(key)
  /\ npc' = "rekey"
  /\ UNCHANGED <<name, other, key, otherKey, copyKeys, clientVars, scriptVars, scoreVars, extraVars>>

\* a name that differs from name only in the case of one letter
NormalizeOtherCase ==
  /\ npc = "key"
  /\ \E i \in 1..Len(name) :
       /\ FlipCase(name, i) # name
       /\ other' = FlipCase(name, i)
  /\ otherKey' = normalize_name(other')
  /\ npc' = "case"
  /\ UNCHANGED <<name, key, rekey, copyKeys, clientVars, scriptVars, scoreVars, extraVars>>

\* a name that differs from name only in one punctuation character
NormalizeOtherPunct ==
  /\ npc = "key"
  /\ \E i \in 1..(Len(name) + 1), p \in Punctuation :
       other' = InsertAt(name, i, p)
  /\ otherKey' = normalize_name(other')
  /\ npc' = "punct"
  /\ UNCHANGED <<name, key, rekey, copyKeys, clientVars, scriptVars, scoreVars, extraVars>>

NormNext ==
  \/ NormalizeName
  \/ NormalizeKey
  \/ NormalizeOtherCase
  \/ NormalizeOtherPunct

SpecNormalize == NormInit /\ [][NormNext]_vars

(***************************************************************************)
(* Claims about normalize_name                                               *)
(***************************************************************************)

\* C4: normalize_name is idempotent: normalizing a key again returns the key.
C4_Idempotent == npc = "rekey" => rekey = key

\* C5: normalize_name("Acme, Inc.") = normalize_name("ACME INC") = "acme", and
\* two names that differ only in letter case, or only in characters outside
\* [a-z0-9 ], have the same key.
C5_CasePunctInsensitive ==
  /\ (npc # "input" /\ name \in {AcmeCommaIncDot, ACME_INC}) => key = acme
  /\ npc = "case" => otherKey = key
  /\ npc = "punct" => otherKey = key

\* C20: the copies of normalize_name in find_top_startups, check_w26 and
\* affinity_check compute the same function: the same name has the same key
\* in every script.
C20_CopiesAgree ==
  npc # "input" /\ npc # "off" =>
    /\ copyKeys.check_w26 = key
    /\ copyKeys.affinity_check = key

(***************************************************************************)
(* The founder score of a person record (find_top_startups)                  *)
(***************************************************************************)
\* sub in s, for two strings
Contains(s, sub) ==
  \E i \in 1..(Len(s) - Len(sub) + 1) : SubSeq(s, i, i + Len(sub) - 1) = sub

ELITE_COMPANIES == {
    <<"g", "o", "o", "g", "l", "e">>,
    <<"m", "e", "t", "a">>,
    <<"f", "a", "c", "e", "b", "o", "o", "k">>,
    <<"a", "p", "p", "l", "e">>,
    <<"a", "m", "a", "z", "o", "n">>,
    <<"m", "i", "c", "r", "o", "s", "o", "f", "t">>,
    <<"n", "e", "t", "f", "l", "i", "x">>,
    <<"s", "t", "r", "i", "p", "e">>,
    <<"b", "r", "e", "x">>,
    <<"t", "w", "i", "t", "c", "h">>,
    <<"a", "i", "r", "b", "n", "b">>,
    <<"u", "b", "e", "r">>,
    <<"l", "y", "f", "t">>,
    <<"d", "o", "o", "r", "d", "a", "s", "h">>,
    <<"c", "o", "i", "n", "b", "a", "s", "e">>,
    <<"r", "o", "b", "i", "n", "h", "o", "o", "d">>,
    <<"p", "l", "a", "i", "d">>,
    <<"f", "i", "g", "m", "a">>,
    <<"n", "o", "t", "i", "o", "n">>,
    <<"s", "l", "a", "c", "k">>,
    <<"d", "i", "s", "c", "o", "r", "d">>,
    <<"s", "n", "o", "w", "f", "l", "a", "k", "e">>,
    <<"d", "a", "t", "a", "b", "r", "i", "c", "k", "s">>,
    <<"d", "a", "t", "a", "d", "o", "g">>,
    <<"p", "a", "l", "a", "n", "t", "i", "r">>,
    <<"s", "a", "l", "e", "s", "f", "o", "r", "c", "e">>,
    <<"t", "w", "i", "t", "t", "e", "r">>,
    <<"x">>,
    <<"l", "i", "n", "k", "e", "d", "i", "n">>,
    <<"s", "n", "a", "p">>,
    <<"p", "i", "n", "t", "e", "r", "e", "s", "t">>,
    <<"s", "p", "o", "t", "i", "f", "y">>,
    <<"o", "p", "e", "n", "a", "i">>,
    <<"a", "n", "t", "h", "r", "o", "p", "i", "c">>,
    <<"d", "e", "e", "p", "m", "i", "n", "d">>,
    <<"t", "e", "s", "l", "a">>,
    <<"s", "p", "a", "c", "e", "x">>,
    <<"s", "q", "u", "a", "r", "e">>,
    <<"b", "l", "o", "c", "k">>,
    <<"s", "h", "o", "p", "i", "f", "y">>,
    <<"i", "n", "s", "t", "a", "c", "a", "r", "t">>,
    <<"d", "r", "o", "p", "b", "o", "x">>,
    <<"n", "v", "i", "d", "i", "a">>,
    <<"i", "n", "t", "e", "l">>,
    <<"a", "m", "d">>,
    <<"o", "r", "a", "c", "l", "e">>,
    <<"i", "b", "m">>,
    <<"c", "i", "s", "c", "o">>,
    <<"m", "c", "k", "i", "n", "s", "e", "y">>,
    <<"b", "a", "i", "n">>,
    <<"b", "c", "g">>,
    <<"g", "o", "l", "d", "m", "a", "n", " ", "s", "a", "c", "h", "s">>,
    <<"m", "o", "r", "g", "a", "n", " ", "s", "t", "a", "n", "l", "e", "y">>,
    <<"j", "p", " ", "m", "o", "r", "g", "a", "n">>,
    <<"j", "p", "m", "o", "r", "g", "a", "n">>,
    <<"a", "1", "6", "z">>,
    <<"a", "n", "d", "r", "e", "e", "s", "s", "e", "n">>,
    <<"s", "e", "q", "u", "o", "i", "a">>,
    <<"b", "e", "n", "c", "h", "m", "a", "r", "k">>,
    <<"a", "c", "c", "e", "l">>,
    <<"g", "r", "e", "y", "l", "o", "c", "k">>,
    <<"k", "l", "e", "i", "n", "e", "r">>,
    <<"y", " ", "c", "o", "m", "b", "i", "n", "a", "t", "o", "r">>,
    <<"y", "c">> }

ELITE_SCHOOLS == {
    <<"s", "t", "a", "n", "f", "o", "r", "d">>,
    <<"m", "i", "t">>,
    <<"h", "a", "r", "v", "a", "r", "d">>,
    <<"y", "a", "l", "e">>,
    <<"p", "r", "i", "n", "c", "e", "t", "o", "n">>,
    <<"c", "a", "l", "t", "e", "c", "h">>,
    <<"c", "a", "r", "n", "e", "g", "i", "e", " ", "m", "e", "l", "l", "o", "n">>,
    <<"b", "e", "r", "k", "e", "l", "e", "y">>,
    <<"c", "o", "l", "u", "m", "b", "i", "a">>,
    <<"c", "o", "r", "n", "e", "l", "l">>,
    <<"u", "p", "e", "n", "n">>,
    <<"w", "h", "a", "r", "t", "o", "n">>,
    <<"b", "o", "o", "t", "h">>,
    <<"k", "e", "l", "l", "o", "g", "g">>,
    <<"s", "l", "o", "a", "n">>,
    <<"h", "a", "a", "s">>,
    <<"o", "x", "f", "o", "r", "d">>,
    <<"c", "a", "m", "b", "r", "i", "d", "g", "e">>,
    <<"i", "i", "t">> }

\* the title words that earn the larger and the smaller seniority bonus
SeniorTitles == {
    <<"c", "t", "o">>,
    <<"v", "p">>,
    <<"d", "i", "r", "e", "c", "t", "o", "r">>,
    <<"h", "e", "a", "d", " ", "o", "f">>,
    <<"c", "h", "i", "e", "f">>,
    <<"p", "r", "i", "n", "c", "i", "p", "a", "l">>,
    <<"s", "t", "a", "f", "f">>,
    <<"l", "e", "a", "d">> }

MidTitles == {
    <<"s", "e", "n", "i", "o", "r">>,
    <<"m", "a", "n", "a", "g", "e", "r">> }

\* the characters of a highlight category
Chars(category) ==
  CASE category = "Prior Exit" -> <<"P", "r", "i", "o", "r", " ", "E", "x", "i", "t">>
    [] category = "Top University" -> <<"T", "o", "p", " ", "U", "n", "i", "v", "e", "r", "s", "i", "t", "y">>
    [] category = "Serial Founder" -> <<"S", "e", "r", "i", "a", "l", " ", "F", "o", "u", "n", "d", "e", "r">>
    [] category = "Major Tech Company Experience" ->
         <<"M", "a", "j", "o", "r", " ", "T", "e", "c", "h", " ", "C", "o", "m", "p", "a", "n", "y", " ", "E", "x", "p", "e", "r", "i", "e", "n", "c", "e">>
    [] category = "Unicorn" -> <<"U", "n", "i", "c", "o", "r", "n">>
    [] OTHER -> <<>>

\* an experience loop that forgets the companies it has counted
RECURSIVE ExperienceLoop_NoSeen(_, _, _)
ExperienceLoop_NoSeen(exps, seen_companies, score) ==
  IF exps = <<>> THEN score
  ELSE LET co == Strip(Lower(Head(exps).company_name))
       IN  IF \E elite \in ELITE_COMPANIES : Contains(co, elite)
             THEN ExperienceLoop_NoSeen(Tail(exps), seen_companies, score + 15)
             ELSE ExperienceLoop_NoSeen(Tail(exps), seen_companies, score)

\* the loop over experience with its seen_companies
RECURSIVE ExperienceLoop(_, _, _)
ExperienceLoop(exps, seen_companies, score) ==
  IF exps = <<>> THEN score
  ELSE LET co == Strip(Lower(Head(exps).company_name))
           title == Lower(Head(exps).title)
           bonus == IF \E w \in SeniorTitles : Contains(title, w) THEN 10
                    ELSE IF \E w \in MidTitles : Contains(title, w) THEN 5
                    ELSE 0
       IN  IF (\E elite \in ELITE_COMPANIES : Contains(co, elite)) /\ co \notin seen_companies
             THEN ExperienceLoop(Tail(exps), seen_companies \cup {co}, score + 15 + bonus)
             ELSE ExperienceLoop(Tail(exps), seen_companies, score)

\* the loop over education: every entry of an elite school counts
RECURSIVE EducationLoop(_, _)
EducationLoop(edus, score) ==
  IF edus = <<>> THEN score
  ELSE LET school_name == Lower(Head(edus))
       IN  IF \E elite \in ELITE_SCHOOLS : Contains(school_name, elite)
             THEN EducationLoop(Tail(edus), score + 10)
             ELSE EducationLoop(Tail(edus), score)

\* the points of one entry of the person's highlights
PersonHighlightPoints(category) ==
  LET cat == Lower(Chars(category))
  IN  IF Contains(cat, <<"p", "r", "i", "o", "r", "_", "e", "x", "i", "t">>)
         \/ Contains(cat, <<"p", "r", "i", "o", "r", " ", "e", "x", "i", "t">>) THEN 20
      ELSE IF Contains(cat, <<"t", "o", "p", "_", "u", "n", "i", "v", "e", "r", "s", "i", "t", "y">>)
         \/ Contains(cat, <<"t", "o", "p", " ", "u", "n", "i", "v", "e", "r", "s", "i", "t", "y">>) THEN 5
      ELSE IF Contains(cat, <<"m", "a", "j", "o", "r", "_", "t", "e", "c", "h">>)
         \/ Contains(cat, <<"f", "a", "a", "n", "g">>) THEN 10
      ELSE IF Contains(cat, <<"s", "e", "r", "i", "a", "l", "_", "f", "o", "u", "n", "d", "e", "r">>)
         \/ Contains(cat, <<"s", "e", "r", "i", "a", "l", " ", "f", "o", "u", "n", "d", "e", "r">>) THEN 15
      ELSE 0

\* the loop over p_highlights: every entry counts, nothing is remembered
RECURSIVE PersonHighlightLoop(_, _)
PersonHighlightLoop(hs, score) ==
  IF hs = <<>> THEN score
  ELSE PersonHighlightLoop(Tail(hs), score + PersonHighlightPoints(Head(hs)))

\* compute_founder_score(person) of find_top_startups
compute_person_founder_score(p) ==
  PersonHighlightLoop(p.highlights,
    EducationLoop(p.education,
      ExperienceLoop(p.experience, {}, 0)))

\* compute_founder_score of find_raising_startups for a company whose
\* employee highlights are those of the person
TeamFounderScore(p) ==
  compute_founder_score([EmptyCompany EXCEPT !.employee_highlights = p.highlights])

(***************************************************************************)
(* Scoring a person record, and the record with one more entry               *)
(***************************************************************************)
\* the entries of one person record
MaxEntries == 3

ExperiencePool == {
    [company_name |-> <<"G", "o", "o", "g", "l", "e">>, title |-> <<"C", "T", "O">>],
    [company_name |-> <<" ", "g", "o", "o", "g", "l", "e", " ">>, title |-> <<"E", "n", "g", "i", "n", "e", "e", "r">>],
    [company_name |-> <<"M", "a", "x", "c", "o">>, title |-> <<"S", "e", "n", "i", "o", "r", " ", "M", "a", "n", "a", "g", "e", "r">>],
    [company_name |-> <<"A", "c", "m", "e">>, title |-> <<"C", "T", "O">>] }

SchoolPool == { <<"S", "t", "a", "n", "f", "o", "r", "d">>,
                <<"M", "I", "T", " ", "S", "l", "o", "a", "n">>,
                <<"S", "t", "a", "t", "e">> }

PersonCategories == {"Prior Exit", "Top University", "Serial Founder", "Unicorn"}

Entries(p) == Len(p.experience) + Len(p.education) + Len(p.highlights)

FounderInit ==
  /\ NormIdle
  /\ ClientIdle
  /\ ScriptIdle
  /\ ScoreIdle
  /\ SheetIdle
  /\ PoolIdle
  /\ LemlistIdle
  /\ FunnelIdle /\ HarmonicIdle
  /\ person = NoPerson
  /\ personScore = 0
  /\ teamScore = 0
  /\ personPrev = NoPersonPrev
  /\ ppc = "input"

\* the record is scored by both scripts
ScorePerson ==
  /\ ppc = "input"
  /\ personScore' = compute_person_founder_score(person)
  /\ teamScore' = TeamFounderScore(person)
  /\ ppc' = "scored"
  /\ UNCHANGED <<person, personPrev>>

\* the record p, which has one entry more than the scored one, is scored
RescorePerson(p, change) ==
  /\ ppc = "scored" /\ Entries(person) < MaxEntries
  /\ person' = p
  /\ personPrev' = [person |-> personScore, team |-> teamScore, change |-> change]
  /\ personScore' = compute_person_founder_score(p)
  /\ teamScore' = TeamFounderScore(p)
  /\ UNCHANGED ppc

\* one more highlight entry whose category is not yet in the list
AppendNewCategory ==
  \E category \in PersonCategories :
    /\ category \notin Range(person.highlights)
    /\ RescorePerson([person EXCEPT !.highlights = Append(@, category)], "new category")

\* one more highlight entry whose category already occurs in the list
AppendSeenCategory ==
  \E category \in PersonCategories :
    /\ category \in Range(person.highlights)
    /\ RescorePerson([person EXCEPT !.highlights = Append(@, category)], "seen category")

\* one more position
AppendExperience ==
  \E exp \in ExperiencePool :
    RescorePerson([person EXCEPT !.experience = Append(@, exp)], "experience")

\* one more school
AppendEducation ==
  \E school \in SchoolPool :
    RescorePerson([person EXCEPT !.education = Append(@, school)], "education")

FounderNext ==
  \/ ScorePerson /\ UNCHANGED exceptPerson
  \/ AppendNewCategory /\ UNCHANGED exceptPerson
  \/ AppendSeenCategory /\ UNCHANGED exceptPerson
  \/ AppendExperience /\ UNCHANGED exceptPerson
  \/ AppendEducation /\ UNCHANGED exceptPerson

SpecFounder == FounderInit /\ [][FounderNext]_vars

(***************************************************************************)
(* Claims about the founder score                                            *)
(***************************************************************************)
\* C12: each highlight category counts at most once: appending an entry
\* whose category already occurs in the list leaves the founder score
\* unchanged, in find_top_startups and in find_raising_startups alike.
C12_CategoryOnce ==
  (ppc = "scored" /\ personPrev.change = "seen category")
    => /\ personScore = personPrev.person
       /\ teamScore = personPrev.team

\* C13: a person whose highlights are Prior Exit, Prior Exit, Top University,
\* and who has nothing else that scores, has the founder score 25 + 5 = 30.
C13_PriorExitExample ==
  (/\ ppc = "scored"
   /\ person.highlights = <<"Prior Exit", "Prior Exit", "Top University">>
   /\ person.experience = <<>>
   /\ person.education = <<>>)
    => /\ personScore = 30
       /\ teamScore = 30

(***************************************************************************)
(* Claims about add_to_affinity                                              *)
(***************************************************************************)
\* the create-organization call goes out in this step
CreateIssued == pc' = "create" /\ pc # "create"

\* the create call is issued exactly when the resolution of the row found no
\* organization, and its payload is the row's company and domain
CreateIffUnresolved ==
  /\ (script = AddToAffinity /\ pc = "resolved" /\ pc' # "resolved")
       => /\ (org = 0) <=> CreateIssued
          /\ (org = 0) => /\ req'.method = "POST" /\ req'.ep = "/organizations"
                          /\ req'.term = qname \o <<"|">> \o qdomain
  /\ CreateIssued => (script = AddToAffinity /\ pc = "resolved" /\ org = 0)

\* the membership check of a created organization has been answered
CreatedChecked ==
  script = AddToAffinity /\ pc = "detail" /\ foundBy = "created" /\ pc' # "detail"

\* the list entry of the organization of the row is posted
EntryIssued ==
  /\ pc' = "entry"
  /\ req'.method = "POST" /\ req'.ep = "/lists/{id}/list-entries" /\ req'.id = org

EmployerRepeated ==
  /\ ppc = "scored" /\ personPrev.change = "experience"
  /\ LET n == Len(person.experience)
         co(i) == Strip(Lower(person.experience[i].company_name))
     IN  \E i \in 1..(n - 1) : co(i) = co(n)

\* the school of the last education entry was in the list before
SchoolRepeated ==
  /\ ppc = "scored" /\ personPrev.change = "education"
  /\ LET n == Len(person.education)
     IN  \E i \in 1..(n - 1) : Lower(person.education[i]) = Lower(person.education[n])

\* C21: the person score is deduplicated per company and per school: an
\* entry for an employer or a school that is in the list already does not
\* increase the score.
C21_BackgroundOnce ==
  (EmployerRepeated \/ SchoolRepeated) => personScore = personPrev.person

\* C21, amended: the person score is deduplicated per company: an experience
\* entry whose company name (lower-cased and trimmed) is in the list already
\* does not increase the score; schools are not deduplicated.
C21_BackgroundOnce_Amended ==
  EmployerRepeated => personScore = personPrev.person

\* an elite employer was counted once although it is listed twice
C21_Witness ==
  /\ EmployerRepeated
  /\ Len(person.experience) = 2 /\ person.education = <<>> /\ person.highlights = <<>>
  /\ personScore = 25

(***************************************************************************)
(* The spreadsheet writes of one run                                         *)
(***************************************************************************)
PushAndCheck == "push_and_check"
DeepAnalysis == "deep_affinity_analysis"
CleanNames == "clean_names"
RaisingLater == "find_raising_later"
Writers == {PushAndCheck, AffinityCheck, DeepAnalysis, CleanNames, RaisingLater}

\* the scripts that read their rows from the sheet itself
SheetReaders == {AffinityCheck, CleanNames}

\* the data rows of a sheet, and the rows of an input file or list
MaxSheetRows == 2

\* a sheet is its rows, the header row first; a row is known by its kind
HeaderRows == {"other headers", "headers", "headers + new_cols"}
DataRows == {"clean name", "unclean name"}
PreSheets ==
  {<<>>} \cup { <<h>> \o rows : h \in HeaderRows, rows \in SeqsUpTo(DataRows, MaxSheetRows) }

Repeat(n, row) == [i \in 1..n |-> row]

\* sheet.update(range, values): the rows from row `first` on are overwritten
Update(sh, first, values) ==
  [i \in 1..(IF Len(sh) > first + Len(values) - 1 THEN Len(sh) ELSE first + Len(values) - 1) |->
     IF i >= first /\ i < first + Len(values) THEN values[i - first + 1]
     ELSE IF i <= Len(sh) THEN sh[i] ELSE "empty row"]

\* clean != name: the rows whose name clean_names rewrites
Unclean(sh) == { i \in 2..Len(sh) : sh[i] = "unclean name" }

\* affinity_check 146-166: the sheet is empty or has no companyName column
NoCompanyColumn(sh) == IF sh = <<>> THEN TRUE ELSE sh[1] = "other headers"

\* output_rows, updates: what the run writes in its last call
OutputRows(w, n) ==
  IF w = AffinityCheck THEN Repeat(n, "checked row")
  ELSE <<"script headers">> \o Repeat(n, "output row")

\* the sheet of a run that has written everything
NewSheet(w, sh, n) ==
  IF w = AffinityCheck
    THEN IF NoCompanyColumn(sh) THEN sh
         ELSE Update(Update(sh, 1, <<"headers + new_cols">>), 2, OutputRows(w, n))
  ELSE IF w = CleanNames
    THEN [i \in 1..Len(sh) |-> IF i \in Unclean(sh) THEN "cleaned name" ELSE sh[i]]
  ELSE OutputRows(w, n)

Call(op) == [op |-> op, processed |-> wrow]

SheetInit ==
  /\ NormIdle
  /\ ClientIdle
  /\ ScriptIdle
  /\ ScoreIdle
  /\ PersonIdle
  /\ PoolIdle
  /\ LemlistIdle
  /\ FunnelIdle /\ HarmonicIdle
  /\ writer \in Writers
  /\ pre \in PreSheets
  /\ nrows \in 0..MaxSheetRows
  /\ writer \in SheetReaders => nrows = (IF pre = <<>> THEN 0 ELSE Len(pre) - 1)
  /\ sheet = pre
  /\ calls = <<>>
  /\ wrow = 0
  /\ wpc = "start"

\* push_and_check 165, deep_affinity_analysis 151: sheet.clear() before the
\* rows are processed
ClearFirst ==
  /\ wpc = "start" /\ writer \in {PushAndCheck, DeepAnalysis}
  /\ sheet' = <<>>
  /\ calls' = Append(calls, Call("clear"))
  /\ wpc' = "loop"
  /\ UNCHANGED <<writer, pre, nrows, wrow>>

\* affinity_check 146-166: an empty sheet or one without the companyName
\* column ends the run
AbortNoColumn ==
  /\ wpc = "start" /\ writer = AffinityCheck
  /\ NoCompanyColumn(sheet)
  /\ wpc' = "done"
  /\ UNCHANGED <<writer, pre, nrows, sheet, calls, wrow>>

\* affinity_check 182: sheet.update('A1', [headers]) before the rows are
\* processed
UpdateHeaders ==
  /\ wpc = "start" /\ writer = AffinityCheck
  /\ ~NoCompanyColumn(sheet)
  /\ sheet' = Update(sheet, 1, <<"headers + new_cols">>)
  /\ calls' = Append(calls, Call("update A1"))
  /\ wpc' = "loop"
  /\ UNCHANGED <<writer, pre, nrows, wrow>>

\* clean_names and find_raising_later go to their rows at once
StartLoop ==
  /\ wpc = "start" /\ writer \in {CleanNames, RaisingLater}
  /\ wpc' = "loop"
  /\ UNCHANGED <<writer, pre, nrows, sheet, calls, wrow>>

\* one row is processed; the result stays in memory
ProcessRow ==
  /\ wpc = "loop" /\ wrow < nrows
  /\ wrow' = wrow + 1
  /\ UNCHANGED <<writer, pre, nrows, sheet, calls, wpc>>

\* find_raising_later 158: sheet.clear() after the rows are processed
ClearLast ==
  /\ wpc = "loop" /\ wrow = nrows /\ writer = RaisingLater
  /\ sheet' = <<>>
  /\ calls' = Append(calls, Call("clear"))
  /\ wpc' = "write"
  /\ UNCHANGED <<writer, pre, nrows, wrow>>

\* the last call: sheet.update('A1', output_rows), or sheet.update('A2',
\* updates) in affinity_check
FinalUpdate ==
  /\ \/ wpc = "loop" /\ wrow = nrows /\ writer \in {PushAndCheck, DeepAnalysis, AffinityCheck}
     \/ wpc = "write" /\ writer = RaisingLater
  /\ sheet' = Update(sheet, IF writer = AffinityCheck THEN 2 ELSE 1, OutputRows(writer, nrows))
  /\ calls' = Append(calls, Call("update"))
  /\ wpc' = "done"
  /\ UNCHANGED <<writer, pre, nrows, wrow>>

\* clean_names 35-37: sheet.update_cell(row_num, 1, new) for the next name
\* that changes
UpdateCell ==
  /\ wpc = "loop" /\ wrow = nrows /\ writer = CleanNames
  /\ Unclean(sheet) # {}
  /\ LET row_num == CHOOSE i \in Unclean(sheet) : \A j \in Unclean(sheet) : i <= j
     IN  sheet' = [sheet EXCEPT ![row_num] = "cleaned name"]
  /\ calls' = Append(calls, Call("update_cell"))
  /\ UNCHANGED <<writer, pre, nrows, wrow, wpc>>

\* clean_names: no name is left to rewrite
CellsDone ==
  /\ wpc = "loop" /\ wrow = nrows /\ writer = CleanNames
  /\ Unclean(sheet) = {}
  /\ wpc' = "done"
  /\ UNCHANGED <<writer, pre, nrows, sheet, calls, wrow>>

\* the run is killed between two of its steps
Kill ==
  /\ wpc \in {"start", "loop", "write"}
  /\ wpc' = "killed"
  /\ UNCHANGED <<writer, pre, nrows, sheet, calls, wrow>>

SheetNext ==
  \/ ClearFirst /\ UNCHANGED exceptSheet
  \/ AbortNoColumn /\ UNCHANGED exceptSheet
  \/ UpdateHeaders /\ UNCHANGED exceptSheet
  \/ StartLoop /\ UNCHANGED exceptSheet
  \/ ProcessRow /\ UNCHANGED exceptSheet
  \/ ClearLast /\ UNCHANGED exceptSheet
  \/ FinalUpdate /\ UNCHANGED exceptSheet
  \/ UpdateCell /\ UNCHANGED exceptSheet
  \/ CellsDone /\ UNCHANGED exceptSheet
  \/ Kill /\ UNCHANGED exceptSheet

SpecSheet == SheetInit /\ [][SheetNext]_vars

(***************************************************************************)
(* Claims about the spreadsheet                                              *)
(***************************************************************************)
\* the run's last write has succeeded
FinalWritten == calls # <<>> /\ calls[Len(calls)].op # "clear"

\* C15: at every point of a run, and after a run that was killed, the sheet
\* is in its pre-run state or in the fully-new state, the latter only once
\* the last write has succeeded.
C15_CrashAtomic ==
  wpc # "off" =>
    \/ sheet = pre
    \/ sheet = NewSheet(writer, pre, nrows) /\ FinalWritten

\* C16: a run makes one mutating sheet call, after all its rows are
\* processed: no call per row and none before the loop over the rows.
C16_OneBatchedWrite ==
  wpc # "off" =>
    /\ Len(calls) <= 1
    /\ \A i \in 1..Len(calls) : calls[i].processed = nrows
    /\ (wpc = "done" /\ sheet # pre) => Len(calls) = 1

(***************************************************************************)
(* The worker pool of find_raising_later                                     *)
(***************************************************************************)
\* the list entries of one run, and the workers of the pool (max_workers,
\* 20 in the script)
MaxPoolEntries == 3
PoolWorkers == 2

\* a future: not yet submitted, waiting for a worker, running
\* check_entry_status, done, or taken by as_completed
NewTask == [st |-> "new", session |-> 0, result |-> "unset"]

Running == { e \in 1..nentries : tasks[e].st = "running" }
SessionsMade == Cardinality({ e \in 1..nentries : tasks[e].session # 0 })

PoolInit ==
  /\ NormIdle
  /\ ClientIdle
  /\ ScriptIdle
  /\ ScoreIdle
  /\ PersonIdle
  /\ SheetIdle
  /\ LemlistIdle
  /\ FunnelIdle /\ HarmonicIdle
  /\ nentries \in 1..MaxPoolEntries
  /\ tasks = [e \in 1..nentries |-> NewTask]
  /\ checked = 0
  /\ raising_later = <<>>
  /\ mpc = "submit"

\* executor.submit(check_entry_status, e) for the next entry; after the last
\* one the submitting thread enters the as_completed loop
Submit ==
  /\ mpc = "submit"
  /\ LET e == CHOOSE x \in 1..nentries :
                /\ tasks[x].st = "new"
                /\ \A y \in 1..(x - 1) : tasks[y].st # "new"
     IN  /\ tasks' = [tasks EXCEPT ![e].st = "queued"]
         /\ mpc' = IF e = nentries THEN "collect" ELSE "submit"
  /\ UNCHANGED <<nentries, checked, raising_later>>

\* a check that takes the session of the first check instead of its own
StartCheck_SharedSession(e) ==
  /\ tasks[e].st = "queued"
  /\ Cardinality(Running) < PoolWorkers
  /\ tasks' = [tasks EXCEPT ![e].st = "running", ![e].session = 1]
  /\ UNCHANGED <<nentries, checked, raising_later, mpc>>

\* a free worker takes the queued check of entry e: s = make_session()
StartCheck(e) ==
  /\ tasks[e].st = "queued"
  /\ Cardinality(Running) < PoolWorkers
  /\ tasks' = [tasks EXCEPT ![e].st = "running", ![e].session = SessionsMade + 1]
  /\ UNCHANGED <<nentries, checked, raising_later, mpc>>

\* check_entry_status returns: affinity_get on the check's own session gave
\* the field values (after at most four 429s), or None after a fifth 429 or
\* a status other than 200; only a Raising Later status gives a record
CheckRespond(e) ==
  /\ tasks[e].st = "running"
  /\ \E answer \in {"raising later", "other status", "not 200", "fifth 429"} :
       tasks' = [tasks EXCEPT ![e].st = "done",
                   ![e].result = IF answer = "raising later" THEN "record" ELSE "None"]
  /\ UNCHANGED <<nentries, checked, raising_later, mpc>>

\* the as_completed loop of the submitting thread takes a finished future:
\* checked += 1, and a record is appended to raising_later
Collect(e) ==
  /\ mpc = "collect"
  /\ tasks[e].st = "done"
  /\ tasks' = [tasks EXCEPT ![e].st = "collected"]
  /\ checked' = checked + 1
  /\ raising_later' = IF tasks[e].result = "record" THEN Append(raising_later, e)
                      ELSE raising_later
  /\ UNCHANGED <<nentries, mpc>>

\* every future is taken: the loop and the with-block end
PoolExit ==
  /\ mpc = "collect"
  /\ \A e \in 1..nentries : tasks[e].st = "collected"
  /\ mpc' = "finished"
  /\ UNCHANGED <<nentries, tasks, checked, raising_later>>

PoolNext ==
  \/ Submit /\ UNCHANGED exceptPool
  \/ (\E e \in 1..nentries : StartCheck(e)) /\ UNCHANGED exceptPool
  \/ (\E e \in 1..nentries : CheckRespond(e)) /\ UNCHANGED exceptPool
  \/ (\E e \in 1..nentries : Collect(e)) /\ UNCHANGED exceptPool
  \/ PoolExit /\ UNCHANGED exceptPool

SpecPool == PoolInit /\ [][PoolNext]_vars

(***************************************************************************)
(* Claims about the worker pool                                              *)
(***************************************************************************)
\* the entries whose check returned a record
FoundEntries == { e \in 1..nentries : tasks[e].result = "record" }

\* C17: at most max_workers checks are in flight, no two checks use the same
\* session, and whatever the interleaving and the completion order, when the
\* pool has finished every entry was checked once (checked is the number of
\* entries) and the result list holds one record for each entry whose check
\* returned one, and nothing else.
C17_PoolExactlyOnce ==
  mpc # "off" =>
    /\ Cardinality(Running) <= PoolWorkers
    /\ \A e1, e2 \in 1..nentries :
         (e1 # e2 /\ tasks[e1].session # 0) => tasks[e1].session # tasks[e2].session
    /\ mpc = "finished" =>
         /\ checked = nentries
         /\ \A e \in 1..nentries : tasks[e].st = "collected" /\ tasks[e].session # 0
         /\ Range(raising_later) = FoundEntries
         /\ Len(raising_later) = Cardinality(FoundEntries)

\* the pool has finished; a later entry completed before an earlier one, and
\* one check returned None
C17_Witness ==
  /\ mpc = "finished" /\ nentries >= 3
  /\ Len(raising_later) = 2
  /\ raising_later[1] > raising_later[2]
  /\ \E e \in 1..nentries : tasks[e].result = "None"

(***************************************************************************)
(* check_entry_status, one check at a time, with its field-values request    *)
(***************************************************************************)
EntryInit ==
  /\ NormIdle /\ ScriptIdle /\ ScoreIdle
  /\ PersonIdle /\ SheetIdle /\ LemlistIdle /\ FunnelIdle /\ HarmonicIdle
  /\ helper = "none" /\ req = NoRequest /\ sent = <<>> /\ slept = <<>>
  /\ resp = NoResponse /\ ret = NoReturn /\ cpc = "idle"
  /\ apiShape = "list"
  /\ nentries \in 1..MaxPoolEntries
  /\ tasks = [e \in 1..nentries |-> NewTask]
  /\ checked = 0
  /\ raising_later = <<>>
  /\ mpc = "submit"

\* a worker runs the check of entry e up to its request:
\* fvs = affinity_get(s, "/field-values", {"list_entry_id": entry_id})
FieldValuesCall(e) ==
  /\ cpc = "idle"
  /\ \A x \in 1..(e - 1) : tasks[x].st = "collected"
  /\ StartCheck(e)
  /\ Sending(BoundedGet, [method |-> "GET", ep |-> "/field-values", term |-> <<>>, id |-> e],
             <<>>)
  /\ slept' = <<>>
  /\ UNCHANGED apiShape

\* the rest of check_entry_status: None when fvs is falsy, the record when a
\* status field value is Raising Later, None otherwise
CheckReturn(e) ==
  /\ cpc = "ret" /\ tasks[e].st = "running"
  /\ tasks' = [tasks EXCEPT ![e].st = "done",
                ![e].result = IF /\ Truthy(ret)
                                 /\ \E i \in 1..Len(ret.items) : ret.items[i] = RAISING_LATER
                                THEN "record" ELSE "None"]
  /\ helper' = "none" /\ req' = NoRequest /\ sent' = <<>> /\ slept' = <<>>
  /\ resp' = NoResponse /\ ret' = NoReturn /\ cpc' = "idle"
  /\ UNCHANGED <<apiShape, nentries, checked, raising_later, mpc>>

exceptEntry == <<normVars, scriptVars, scoreVars, personVars, sheetVars, lemlistVars,
                 funnelVars, harmonicVars>>

EntryNext ==
  \/ Submit /\ UNCHANGED <<clientVars, exceptEntry>>
  \/ (\E e \in 1..nentries : FieldValuesCall(e)) /\ UNCHANGED exceptEntry
  \/ ServerRespond /\ UNCHANGED <<poolVars, exceptEntry>>
  \/ RetryBounded /\ UNCHANGED <<poolVars, exceptEntry>>
  \/ HelperReturn /\ UNCHANGED <<poolVars, exceptEntry>>
  \/ (\E e \in 1..nentries : CheckReturn(e)) /\ UNCHANGED exceptEntry
  \/ (\E e \in 1..nentries : Collect(e)) /\ UNCHANGED <<clientVars, exceptEntry>>
  \/ PoolExit /\ UNCHANGED <<clientVars, exceptEntry>>

SpecEntry == EntryInit /\ [][EntryNext]_vars

\* the entry whose check is running
CheckedEntry == CHOOSE e \in 1..nentries : tasks[e].st = "running"

\* C25: find_raising_later.affinity_get issues at most 5 requests, returns the
\* body of the first 200, None on the first status that is neither 200 nor 429,
\* and None after 5 consecutive 429 responses; an entry whose field-values
\* fetch returns None is dropped from the results, and is counted as checked
\* like every other entry.
C25_BoundedGet ==
  /\ [](Len(sent) <= 5 /\ Len(slept) <= 5)
  /\ [][(cpc = "got" /\ resp.status = 200 /\ cpc' # cpc)
          => (cpc' = "ret" /\ ret' = ReturnJson(resp) /\ Len(sent) = Len(slept) + 1)]_vars
  /\ [][(cpc = "got" /\ resp.status \notin {200, 429} /\ cpc' # cpc)
          => (cpc' = "ret" /\ ret' = ReturnNone /\ Len(sent) = Len(slept) + 1)]_vars
  /\ [][(cpc = "got" /\ resp.status = 429 /\ cpc' # cpc)
          => IF Len(slept) = 4 THEN cpc' = "ret" /\ ret' = ReturnNone /\ sent' = sent
             ELSE cpc' = "wait" /\ sent' = Append(sent, req)]_vars
  /\ [][(cpc = "ret" /\ ret = ReturnNone /\ cpc' # cpc)
          => /\ tasks'[CheckedEntry].st = "done" /\ tasks'[CheckedEntry].result = "None"
             /\ checked' = checked /\ raising_later' = raising_later]_vars
  /\ [](mpc = "finished"
          => /\ checked = nentries
             /\ \A e \in 1..nentries :
                  (\E i \in 1..Len(raising_later) : raising_later[i] = e)
                    <=> tasks[e].result = "record")

\* the field-values fetch of the second entry returned None after five 429
\* responses, the first entry having been found
C25_Witness ==
  /\ cpc = "ret" /\ ret = ReturnNone
  /\ Len(sent) = 5 /\ Len(slept) = 5
  /\ raising_later = <<1>> /\ checked = 1
  /\ tasks[2].st = "running"

(***************************************************************************)
(* add_to_lemlist: the rows of the sheet are filtered, the leads are pushed  *)
(***************************************************************************)
\* the data rows of the sheet
MaxLeadRows == 2

\* the cells companyName and email of a row
LeadRowPool == {
    [companyName |-> <<"A">>, email |-> <<"e">>],
    [companyName |-> <<"A", " ">>, email |-> <<" ", "e">>],
    [companyName |-> <<" ">>, email |-> <<"e">>],
    [companyName |-> <<>>, email |-> <<"e">>],
    [companyName |-> <<"A">>, email |-> <<" ">>],
    [companyName |-> <<"A">>, email |-> <<>>] }

\* the statuses the outreach API may answer a push with
LemlistStatuses == {200, 201, 409, 429, 500}

\* row[col[h]].strip() if h in col else ""
Cell(row, h) ==
  IF h \in lcols THEN Strip(IF h = "companyName" THEN row.companyName ELSE row.email)
  ELSE <<>>

LemlistInit ==
  /\ NormIdle
  /\ ClientIdle
  /\ ScriptIdle
  /\ ScoreIdle
  /\ PersonIdle
  /\ SheetIdle
  /\ PoolIdle
  /\ FunnelIdle /\ HarmonicIdle
  /\ lcols \in SUBSET {"companyName", "email"}
  /\ lrows \in SeqsUpTo(LeadRowPool, MaxLeadRows)
  /\ lrow = 0
  /\ leads = <<>>
  /\ lcount = NoCounts
  /\ lpushed = <<>>
  /\ lpc = "filter"

\* a filter loop that keeps the rows without an email
FilterRow_KeepNoEmail ==
  /\ lpc = "filter" /\ lrow < Len(lrows)
  /\ LET lead_company == Cell(lrows[lrow + 1], "companyName")
         email == Cell(lrows[lrow + 1], "email")
     IN  IF lead_company = <<>>
           THEN /\ lcount' = [lcount EXCEPT !.skipped_empty = @ + 1]
                /\ UNCHANGED leads
           ELSE /\ leads' = Append(leads, [email |-> email, companyName |-> lead_company,
                                           row |-> lrow + 1])
                /\ UNCHANGED lcount
  /\ lrow' = lrow + 1
  /\ UNCHANGED <<lcols, lrows, lpushed, lpc>>

\* add_to_lemlist 58-73: one row of the filter loop
FilterRow ==
  /\ lpc = "filter" /\ lrow < Len(lrows)
  /\ LET lead_company == Cell(lrows[lrow + 1], "companyName")
         email == Cell(lrows[lrow + 1], "email")
     IN  IF lead_company = <<>>
           THEN /\ lcount' = [lcount EXCEPT !.skipped_empty = @ + 1]
                /\ UNCHANGED leads
           ELSE IF email = <<>>
             THEN /\ lcount' = [lcount EXCEPT !.skipped_no_email = @ + 1]
                  /\ UNCHANGED leads
             ELSE /\ leads' = Append(leads, [email |-> email, companyName |-> lead_company,
                                             row |-> lrow + 1])
                  /\ UNCHANGED lcount
  /\ lrow' = lrow + 1
  /\ UNCHANGED <<lcols, lrows, lpushed, lpc>>

\* the filter loop has seen every row
FilterDone ==
  /\ lpc = "filter" /\ lrow = Len(lrows)
  /\ lpc' = "push"
  /\ UNCHANGED <<lcols, lrows, lrow, leads, lcount, lpushed>>

\* a push loop that ends the run at the first failure
PushLead_AbortOnFailure ==
  /\ lpc = "push" /\ Len(lpushed) < Len(leads)
  /\ \E status_code \in LemlistStatuses :
       /\ lpushed' = Append(lpushed, [lead |-> leads[Len(lpushed) + 1], status |-> status_code])
       /\ lcount' = IF status_code \in {200, 201} THEN [lcount EXCEPT !.added = @ + 1]
                    ELSE IF status_code = 409 THEN [lcount EXCEPT !.already_exists = @ + 1]
                    ELSE [lcount EXCEPT !.failed = @ + 1]
       /\ lpc' = IF status_code \in {200, 201, 409} THEN "push" ELSE "done"
  /\ UNCHANGED <<lcols, lrows, lrow, leads>>

\* add_to_lemlist 90-107: the next lead is pushed (one POST, no retry) and
\* the answer is counted
PushLead ==
  /\ lpc = "push" /\ Len(lpushed) < Len(leads)
  /\ \E status_code \in LemlistStatuses :
       /\ lpushed' = Append(lpushed, [lead |-> leads[Len(lpushed) + 1], status |-> status_code])
       /\ lcount' = IF status_code \in {200, 201} THEN [lcount EXCEPT !.added = @ + 1]
                    ELSE IF status_code = 409 THEN [lcount EXCEPT !.already_exists = @ + 1]
                    ELSE [lcount EXCEPT !.failed = @ + 1]
  /\ UNCHANGED <<lcols, lrows, lrow, leads, lpc>>

\* every lead is pushed
LemlistEnd ==
  /\ lpc = "push" /\ Len(lpushed) = Len(leads)
  /\ lpc' = "done"
  /\ UNCHANGED <<lcols, lrows, lrow, leads, lcount, lpushed>>

LemlistNext ==
  \/ FilterRow /\ UNCHANGED exceptLemlist
  \/ FilterDone /\ UNCHANGED exceptLemlist
  \/ PushLead /\ UNCHANGED exceptLemlist
  \/ LemlistEnd /\ UNCHANGED exceptLemlist

(***************************************************************************)
(* One run of a batch script, against the CRM or the outreach API            *)
(***************************************************************************)
BatchInit == CrmInit \/ LemlistInit

BatchNext == CrmNext \/ LemlistNext

SpecBatch == BatchInit /\ [][BatchNext]_vars

(***************************************************************************)
(* Claims about the batch scripts                                            *)
(***************************************************************************)
\* the number of rows with outcome o
Outcomes(outcomes, o) == Cardinality({ i \in 1..Len(outcomes) : outcomes[i] = o })

\* add_to_affinity: a failed create-org or list-entry call fails the row and
\* the loop goes on; at the end every row with a company has one outcome
AffinityFailureCounted ==
  /\ (/\ script = AddToAffinity /\ pc \in {"create", "entry"} /\ cpc = "ret"
      /\ ret.status \notin {200, 201, 429}
      /\ pc' # pc)
       => /\ rowsOut' = Append(rowsOut, "failed")
          /\ idx' = idx + 1
          /\ pc' = "loop"
  /\ (script = AddToAffinity /\ pc' = "done")
       => /\ Len(rowsOut') = idx'
          /\ Outcomes(rowsOut', "added") + Outcomes(rowsOut', "already")
               + Outcomes(rowsOut', "failed")
             = Len(rowsOut') - Outcomes(rowsOut', "no_company")

\* the status answered to the push made in this step
PushedStatus == lpushed'[Len(lpushed')].status

\* add_to_lemlist: at the end every lead has one outcome
LemlistTotals ==
  lpc' = "done" =>
    /\ Len(lpushed') = Len(leads')
    /\ lcount'.added + lcount'.already_exists + lcount'.failed = Len(leads')

\* C18: a failure of one row never ends the batch: in add_to_affinity and in
\* add_to_lemlist a response that is neither 2xx nor 429 (create-org,
\* list-entry add, lead push) is counted as failed and the loop goes on with
\* the next row; at the end added + already present + failed is the number
\* of rows processed.
C18_FailuresCounted ==
  [][ /\ AffinityFailureCounted
      /\ LemlistTotals
      /\ (Len(lpushed') > Len(lpushed) /\ PushedStatus \notin {200, 201, 429})
           => /\ lcount'.failed = lcount.failed + 1
              /\ lpc' = "push" ]_vars

\* C18, amended: as C18, but a 409 answered to a lead push is counted as
\* already present and not as failed; the loop goes on after it as well.
C18_FailuresCounted_Amended ==
  [][ /\ AffinityFailureCounted
      /\ LemlistTotals
      /\ (Len(lpushed') > Len(lpushed) /\ PushedStatus \notin {200, 201, 429, 409})
           => /\ lcount'.failed = lcount.failed + 1
              /\ lpc' = "push"
      /\ (Len(lpushed') > Len(lpushed) /\ PushedStatus = 409)
           => /\ lcount'.already_exists = lcount.already_exists + 1
              /\ lcount'.failed = lcount.failed
              /\ lpc' = "push" ]_vars

\* a run of add_to_lemlist ended after a failed push and a duplicate
C18_Witness ==
  /\ lpc = "done" /\ Len(lpushed) = 2
  /\ lpushed[1].status = 500 /\ lpushed[2].status = 409
  /\ lcount.failed = 1 /\ lcount.already_exists = 1

\* the rows of the sheet with a company and an email
Eligible ==
  { i \in 1..Len(lrows) :
      Cell(lrows[i], "companyName") # <<>> /\ Cell(lrows[i], "email") # <<>> }

\* add_to_lemlist pushes the eligible rows and no others, and every row is
\* skipped or pushed
LemlistRowsExact ==
  /\ \A i \in 1..Len(lpushed) : lpushed[i].lead.email # <<>> /\ lpushed[i].lead.companyName # <<>>
  /\ lpc \in {"push", "done"} => { leads[i].row : i \in 1..Len(leads) } = Eligible
  /\ lpc = "done" =>
       /\ { lpushed[i].lead.row : i \in 1..Len(lpushed) } = Eligible
       /\ Len(lpushed) = Cardinality(Eligible)
       /\ lcount.skipped_empty + lcount.skipped_no_email + Len(lpushed) = Len(lrows)

\* C19: a row is processed only if its company name is non-empty (in
\* add_to_lemlist, add_to_affinity and affinity_check), a lead is pushed only
\* if its email is non-empty, add_to_lemlist pushes exactly the rows with a
\* company and an email, and skipped_empty + skipped_no_email + pushed is
\* the number of rows.
C19_LeadRows ==
  /\ (script \in {AffinityCheck, AddToAffinity} /\ pc \notin {"loop", "done"}) => qname # <<>>
  /\ LemlistRowsExact

(***************************************************************************)
(* find_top_startups: filter, rank and gate (steps 3 and 4 of main)          *)
(*                                                                           *)
(* A company record carries what the steps read of it: its name, whether it  *)
(* passes the categorical filters, its raise score, the email of the first   *)
(* CEO candidate that has an email and a name (empty when there is none),    *)
(* the founder score of that person, and what the CRM answers for it.        *)
(***************************************************************************)
MaxCompanies == 3

\* scored[:600]
TopLimit == 2

\* len(final) >= 50
FinalLimit == 2

CompanyPool ==
  { [name |-> <<"A", " ", "c", "o">>, passes |-> TRUE, raise_score |-> 20, email |-> <<"e">>, founder_score |-> 0, crm |-> "no match"],
    [name |-> <<"a">>, passes |-> TRUE, raise_score |-> 10, email |-> <<"f">>, founder_score |-> 15, crm |-> "no interaction"],
    [name |-> <<"B">>, passes |-> TRUE, raise_score |-> 10, email |-> <<"E", " ">>, founder_score |-> 0, crm |-> "no match"],
    [name |-> <<"C">>, passes |-> FALSE, raise_score |-> 30, email |-> <<"c">>, founder_score |-> 40, crm |-> "no match"],
    [name |-> <<"D">>, passes |-> TRUE, raise_score |-> 30, email |-> <<>>, founder_score |-> 0, crm |-> "no match"],
    [name |-> <<"F">>, passes |-> TRUE, raise_score |-> 10, email |-> <<"g">>, founder_score |-> 25, crm |-> "interaction"],
    [name |-> <<"G">>, passes |-> TRUE, raise_score |-> 5, email |-> <<"h">>, founder_score |-> 40, crm |-> "no interaction"] }

\* list.sort(key=lambda x: -x[field]) left unsorted
SortDescBy_Unsorted(s, field) == s

\* list.sort(key=lambda x: -x[field]): stable, highest first
RECURSIVE SortDescBy(_, _)
SortDescBy(s, field) ==
  IF s = <<>> THEN <<>>
  ELSE LET rest == SortDescBy(SubSeq(s, 1, Len(s) - 1), field)
           x == s[Len(s)]
           k == Cardinality({i \in 1..Len(rest) : rest[i][field] >= x[field]})
       IN SubSeq(rest, 1, k) \o <<x>> \o SubSeq(rest, k + 1, Len(rest))

FunnelInit ==
  /\ NormIdle /\ ClientIdle /\ ScriptIdle /\ ScoreIdle
  /\ PersonIdle /\ SheetIdle /\ PoolIdle /\ LemlistIdle /\ HarmonicIdle
  /\ companies \in SeqsUpTo(CompanyPool, MaxCompanies)
  /\ lemlist_emails \in {{}, {<<"e">>}}
  /\ lemlist_companies \in {{}, {normalize_name(<<"B">>)}}
  /\ existing_names \in {{}, {normalize_name(<<"G">>)}}
  /\ seen_names = {} /\ scored = <<>> /\ top_candidates = <<>>
  /\ pre_affinity = <<>> /\ final = <<>> /\ fi = 1 /\ fpc = "filter"

\* one iteration of the step 3 loop: dedupe, worksheet check, filters, score
FilterCompany ==
  /\ fpc = "filter" /\ fi <= Len(companies)
  /\ LET c == companies[fi]
         norm == normalize_name(c.name)
     IN /\ seen_names' = seen_names \cup {norm}
        /\ scored' = IF norm \in seen_names \/ norm \in existing_names \/ ~c.passes
                       THEN scored
                       ELSE Append(scored, [raise_score |-> c.raise_score, c |-> c])
  /\ fi' = fi + 1
  /\ UNCHANGED <<companies, lemlist_emails, lemlist_companies, existing_names,
                 top_candidates, pre_affinity, final, fpc>>
  /\ UNCHANGED exceptFunnel

\* scored.sort(key=lambda x: -x[0]); top_candidates = scored[:600]
RankScored ==
  /\ fpc = "filter" /\ fi > Len(companies)
  /\ scored' = SortDescBy(scored, "raise_score")
  /\ top_candidates' = SubSeq(scored', 1, IF Len(scored') < TopLimit THEN Len(scored')
                                                                     ELSE TopLimit)
  /\ seen_names' = {}
  /\ fi' = 1 /\ fpc' = "second"
  /\ UNCHANGED <<companies, lemlist_emails, lemlist_companies, existing_names,
                 pre_affinity, final>>
  /\ UNCHANGED exceptFunnel

\* one iteration of the second pass: dedupe, CEO with email, founder score
SecondPass ==
  /\ fpc = "second" /\ fi <= Len(top_candidates)
  /\ LET raise_score == top_candidates[fi].raise_score
         c == top_candidates[fi].c
         norm == normalize_name(c.name)
         email == Strip(c.email)
         founder_score == c.founder_score
     IN /\ seen_names' = seen_names \cup {norm}
        /\ pre_affinity' =
             IF norm \in seen_names \/ email = <<>>
               THEN pre_affinity
               ELSE Append(pre_affinity,
                           [company |-> c, email |-> email, raise_score |-> raise_score,
                            founder_score |-> founder_score,
                            combined_score |-> raise_score + founder_score])
  /\ fi' = fi + 1
  /\ UNCHANGED <<companies, lemlist_emails, lemlist_companies, existing_names,
                 scored, top_candidates, final, fpc>>
  /\ UNCHANGED exceptFunnel

\* pre_affinity.sort(key=lambda x: -x["combined_score"])
SortPreAffinity ==
  /\ fpc = "second" /\ fi > Len(top_candidates)
  /\ pre_affinity' = SortDescBy(pre_affinity, "combined_score")
  /\ fi' = 1 /\ fpc' = "third"
  /\ UNCHANGED <<companies, lemlist_emails, lemlist_companies, existing_names,
                 seen_names, scored, top_candidates, final>>
  /\ UNCHANGED exceptFunnel

\* the Lemlist test of the third pass, without the company-name half
InLemlist_EmailOnly(item) == Lower(Strip(item.email)) \in lemlist_emails

\* lead_email in lemlist_emails or normalize_name(name) in lemlist_companies
InLemlist(item) ==
  \/ Lower(Strip(item.email)) \in lemlist_emails
  \/ normalize_name(item.company.name) \in lemlist_companies

\* org = affinity.search_org(name, domain); if org: has_any_interaction(org["id"])
SkippedByAffinity(item) == item.company.crm = "interaction"

\* one iteration of the third pass
ThirdPass ==
  /\ fpc = "third" /\ fi <= Len(pre_affinity) /\ Len(final) < FinalLimit
  /\ LET item == pre_affinity[fi]
     IN final' = IF InLemlist(item) \/ SkippedByAffinity(item) THEN final
                 ELSE Append(final, item)
  /\ fi' = fi + 1
  /\ UNCHANGED <<companies, lemlist_emails, lemlist_companies, existing_names,
                 seen_names, scored, top_candidates, pre_affinity, fpc>>
  /\ UNCHANGED exceptFunnel

\* the third pass ends: the list is exhausted or 50 are collected
ThirdEnd ==
  /\ fpc = "third" /\ (fi > Len(pre_affinity) \/ Len(final) >= FinalLimit)
  /\ fpc' = "done"
  /\ UNCHANGED <<companies, lemlist_emails, lemlist_companies, existing_names,
                 seen_names, scored, top_candidates, pre_affinity, final, fi>>
  /\ UNCHANGED exceptFunnel

FunnelNext ==
  \/ FilterCompany
  \/ RankScored
  \/ SecondPass
  \/ SortPreAffinity
  \/ ThirdPass
  \/ ThirdEnd

SpecFunnel == FunnelInit /\ [][FunnelNext]_vars

(***************************************************************************)
(* Claims about the funnel                                                   *)
(***************************************************************************)
FinalKeys == {normalize_name(final[i].company.name) : i \in 1..Len(final)}

\* C22: every company of the final list has a contact email that is not in the
\* Lemlist contacted-email set, a normalized name that is neither in the Lemlist
\* contacted-company set nor among the names loaded from the worksheets, and
\* either no CRM match or no interaction; no two rows share a normalized name.
C22_DuplicateOutreachGate ==
  /\ \A i \in 1..Len(final) :
       /\ final[i].email # <<>>
       /\ Lower(Strip(final[i].email)) \notin lemlist_emails
       /\ normalize_name(final[i].company.name) \notin lemlist_companies
       /\ normalize_name(final[i].company.name) \notin existing_names
       /\ final[i].company.crm \in {"no match", "no interaction"}
  /\ Cardinality(FinalKeys) = Len(final)

\* the run ended with an output row while every gate had something to refuse
C22_Witness ==
  /\ fpc = "done" /\ Len(final) = 1
  /\ lemlist_emails # {} /\ lemlist_companies # {} /\ existing_names # {}
  /\ \E i \in 1..Len(companies) :
       /\ normalize_name(companies[i].name) \in lemlist_companies
       /\ companies[i].passes
  /\ \E i, j \in 1..Len(companies) :
       i # j /\ normalize_name(companies[i].name) = normalize_name(companies[j].name)

\* the first company of its normalized name that passes the filters, has a CEO
\* email and is refused neither by Lemlist, the worksheets nor the CRM check
PassesEverything(i) ==
  LET c == companies[i]
      norm == normalize_name(c.name)
  IN /\ \A j \in 1..(i - 1) : normalize_name(companies[j].name) # norm
     /\ norm \notin existing_names /\ norm \notin lemlist_companies
     /\ c.passes
     /\ Strip(c.email) # <<>> /\ Lower(Strip(c.email)) \notin lemlist_emails
     /\ c.crm # "interaction"

InFinal(i) == \E k \in 1..Len(final) : final[k].company = companies[i]

CombinedIsSum ==
  \A k \in 1..Len(pre_affinity) :
    pre_affinity[k].combined_score
      = pre_affinity[k].raise_score + pre_affinity[k].founder_score

FinalInScoreOrder ==
  \A k \in 1..(Len(final) - 1) : final[k].combined_score >= final[k + 1].combined_score

\* the company is not among the 600 highest raise scores
CutByTopLimit(i) ==
  /\ Len(top_candidates) = TopLimit
  /\ \A k \in 1..TopLimit : top_candidates[k].c # companies[i]
  /\ \A k \in 1..TopLimit : top_candidates[k].raise_score >= companies[i].raise_score

\* 50 candidates of at least its combined score are in the output
CutByFinalLimit(i) ==
  /\ Len(final) = FinalLimit
  /\ \A k \in 1..FinalLimit :
       final[k].combined_score >= companies[i].raise_score + companies[i].founder_score

TopUrnLimit == 4

\* while len(all_urns) < 1500 (find_raising_startups)
RaisingUrnLimit == 3

\* search_companies(page_size=200, ..)
PageSize == 2

\* chunked(urns, 25)
ChunkSize == 2

UrnLimit(sc) == IF sc = TopStartups THEN TopUrnLimit ELSE RaisingUrnLimit

\* chunked(urns, 25) in find_top_startups, chunked(urns, 50) in
\* find_raising_startups
BatchChunkSize(sc) == IF sc = TopStartups THEN ChunkSize ELSE 2 * ChunkSize

\* a chunking that yields the full chunks only
chunked_FullOnly(lst, n) ==
  [k \in 1..(Len(lst) \div n) |-> SubSeq(lst, (k - 1) * n + 1, k * n)]

\* for i in range(0, len(lst), n): yield lst[i:i+n]
chunked(lst, n) ==
  [k \in 1..((Len(lst) + n - 1) \div n) |->
     SubSeq(lst, (k - 1) * n + 1, Min2(k * n, Len(lst)))]

HarmonicInit ==
  /\ NormIdle /\ ClientIdle /\ ScriptIdle /\ ScoreIdle
  /\ PersonIdle /\ SheetIdle /\ PoolIdle /\ LemlistIdle /\ FunnelIdle
  /\ hscript \in Scorers
  /\ all_urns = <<>> /\ start = 0 /\ ci = 0 /\ attempt = 0
  /\ out = <<>> /\ posted = <<>> /\ hpc = "paging"

\* a pagination step that advances by the page size it asked for
NextPage_ByPageSize ==
  /\ hpc = "paging" /\ Len(all_urns) < UrnLimit(hscript)
  /\ \E k \in 0..PageSize :
       LET urns == [i \in 1..k |-> start + i]
       IN IF urns = <<>>
            THEN /\ hpc' = "batch" /\ ci' = 1
                 /\ UNCHANGED <<all_urns, start>>
            ELSE /\ all_urns' = all_urns \o urns
                 /\ start' = start + PageSize
                 /\ UNCHANGED <<hpc, ci>>
  /\ UNCHANGED <<hscript, attempt, out, posted>>

\* one iteration of the pagination loop, the search answering with a page of
\* 0..page_size URNs
NextPage ==
  /\ hpc = "paging" /\ Len(all_urns) < UrnLimit(hscript)
  /\ \E k \in 0..PageSize :
       LET urns == [i \in 1..k |-> start + i]
       IN IF urns = <<>>
            THEN /\ hpc' = "batch" /\ ci' = 1
                 /\ UNCHANGED <<all_urns, start>>
            ELSE /\ all_urns' = all_urns \o urns
                 /\ start' = start + Len(urns)
                 /\ UNCHANGED <<hpc, ci>>
  /\ UNCHANGED <<hscript, attempt, out, posted>>

\* the loop condition fails: the limit is reached
PagesEnd ==
  /\ hpc = "paging" /\ Len(all_urns) >= UrnLimit(hscript)
  /\ hpc' = "batch" /\ ci' = 1
  /\ UNCHANGED <<hscript, all_urns, start, attempt, out, posted>>

\* r.raise_for_status() in search_companies: the run ends with the exception
SearchFails ==
  /\ hpc = "paging" /\ Len(all_urns) < UrnLimit(hscript)
  /\ hpc' = "raised"
  /\ UNCHANGED <<hscript, all_urns, start, ci, attempt, out, posted>>

\* the batchGet request of the chunk succeeds: its records (one per URN the
\* API knows) are appended, and the loop goes to the next chunk
BatchSucceeds ==
  /\ hpc = "batch" /\ ci <= Len(chunked(all_urns, BatchChunkSize(hscript)))
  /\ LET chunk == chunked(all_urns, BatchChunkSize(hscript))[ci]
     IN \E records \in {chunk, Tail(chunk)} :
          /\ out' = out \o records
          /\ posted' = Append(posted, [chunk |-> chunk, n |-> ci, attempt |-> attempt,
                                       ok |-> TRUE, caught |-> TRUE,
                                       records |-> records])
  /\ ci' = ci + 1 /\ attempt' = 0
  /\ UNCHANGED <<hscript, all_urns, start, hpc>>

\* the request times out, fails to connect or answers an HTTP error: in
\* find_top_startups retried after two seconds and raised at the third
\* attempt, in find_raising_startups (no try) raised at once
BatchFails ==
  /\ hpc = "batch" /\ ci <= Len(chunked(all_urns, BatchChunkSize(hscript)))
  /\ posted' = Append(posted, [chunk |-> chunked(all_urns, BatchChunkSize(hscript))[ci], n |-> ci,
                               attempt |-> attempt, ok |-> FALSE, caught |-> TRUE,
                               records |-> <<>>])
  /\ IF hscript = TopStartups /\ attempt < 2
       THEN attempt' = attempt + 1 /\ hpc' = hpc
       ELSE attempt' = attempt /\ hpc' = "raised"
  /\ UNCHANGED <<hscript, all_urns, start, ci, out>>

\* the answer is a 200 whose body r.json() cannot decode: that exception is
\* not among the caught ones and ends the run at once
BatchUncaught ==
  /\ hpc = "batch" /\ ci <= Len(chunked(all_urns, BatchChunkSize(hscript)))
  /\ posted' = Append(posted, [chunk |-> chunked(all_urns, BatchChunkSize(hscript))[ci], n |-> ci,
                               attempt |-> attempt, ok |-> FALSE, caught |-> FALSE,
                               records |-> <<>>])
  /\ hpc' = "raised"
  /\ UNCHANGED <<hscript, all_urns, start, ci, attempt, out>>

\* return out
BatchReturn ==
  /\ hpc = "batch" /\ ci > Len(chunked(all_urns, BatchChunkSize(hscript)))
  /\ hpc' = "done"
  /\ UNCHANGED <<hscript, all_urns, start, ci, attempt, out, posted>>

HarmonicNext ==
  \/ NextPage /\ UNCHANGED exceptHarmonic
  \/ PagesEnd /\ UNCHANGED exceptHarmonic
  \/ SearchFails /\ UNCHANGED exceptHarmonic
  \/ BatchSucceeds /\ UNCHANGED exceptHarmonic
  \/ BatchFails /\ UNCHANGED exceptHarmonic
  \/ BatchUncaught /\ UNCHANGED exceptHarmonic
  \/ BatchReturn /\ UNCHANGED exceptHarmonic

SpecHarmonic == HarmonicInit /\ [][HarmonicNext]_vars

\* the script runs on: every step that can be taken is taken in the end
SpecHarmonicLive == SpecHarmonic /\ WF_vars(HarmonicNext)

(***************************************************************************)
(* Claims about the company search                                           *)
(***************************************************************************)
Chunks == chunked(all_urns, BatchChunkSize(hscript))

\* consecutive chunks of at most ChunkSize URNs that cover the list in order
ChunksCover ==
  /\ Concat(Chunks) = all_urns
  /\ \A k \in 1..Len(Chunks) : Len(Chunks[k]) >= 1 /\ Len(Chunks[k]) <= ChunkSize
  /\ \A k \in 1..(Len(Chunks) - 1) : Len(Chunks[k]) = ChunkSize

\* the requests are the chunks in order, each attempted until it succeeds and
\* at most three times; a third failure (or an exception that is not caught)
\* is the last request of the run
AttemptsInOrder ==
  /\ \A i \in 1..Len(posted) :
       /\ posted[i].n \in 1..Len(Chunks) /\ posted[i].chunk = Chunks[posted[i].n]
       /\ posted[i].attempt \in 0..2
       /\ (i = 1) => (posted[i].n = 1 /\ posted[i].attempt = 0)
       /\ (i < Len(posted)) =>
            IF posted[i].ok
              THEN posted[i + 1].n = posted[i].n + 1 /\ posted[i + 1].attempt = 0
              ELSE /\ posted[i].attempt < 2 /\ posted[i].caught
                   /\ posted[i + 1].n = posted[i].n
                   /\ posted[i + 1].attempt = posted[i].attempt + 1
  /\ (/\ posted # <<>> /\ ~posted[Len(posted)].ok
      /\ (posted[Len(posted)].attempt = 2 \/ ~posted[Len(posted)].caught))
       <=> (hpc = "raised" /\ posted # <<>>)

\* the records of the successful requests, in order, each once
RecordsOnce ==
  LET okPosts == SelectSeq(posted, LAMBDA p : p.ok)
  IN /\ out = Concat([i \in 1..Len(okPosts) |-> okPosts[i].records])
     /\ \A i, j \in 1..Len(okPosts) : i # j => okPosts[i].n # okPosts[j].n
     /\ hpc = "done" => Len(okPosts) = Len(Chunks)

\* C29: batch_get_companies splits the URN list into consecutive chunks of at
\* most 25 that cover every URN once and in order, attempts each chunk at most
\* 3 times, appends its records once (on the successful attempt), processes the
\* chunks in order, and raises when a chunk fails 3 times.
C29_BatchGet ==
  (hscript = TopStartups /\ hpc \in {"batch", "done", "raised"})
    => ChunksCover /\ AttemptsInOrder /\ RecordsOnce

\* three URNs in two chunks, the first chunk fetched at its third attempt
C29_Witness ==
  /\ hscript = TopStartups /\ hpc = "done" /\ Len(all_urns) = 3 /\ Len(Chunks) = 2
  /\ Len(posted) = 4 /\ posted[3].ok /\ posted[3].attempt = 2
  /\ out = all_urns

\* C30: the pagination loop terminates when the search returns pages without
\* error: an iteration stops on an empty page or adds at least one URN, start
\* is the number of URNs collected, the loop ends once the limit (6000 or
\* 1500) is reached, and with pages of at most 200 fewer than limit + 200 URNs
\* are collected.
C30_PaginationEnds ==
  /\ [](start = Len(all_urns))
  /\ [][hpc = "paging"
          => \/ Len(all_urns') > Len(all_urns) /\ hpc' = "paging"
             \/ all_urns' = all_urns /\ hpc' # "paging"]_vars
  /\ [][(hpc = "paging" /\ Len(all_urns) >= UrnLimit(hscript))
          => (hpc' = "batch" /\ all_urns' = all_urns)]_vars
  /\ [](Len(all_urns) < UrnLimit(hscript) + PageSize)
  /\ <>(hpc # "paging")

\* the loop of find_top_startups ended one URN short of limit + page size,
\* after a page that was not full
C30_Witness ==
  /\ hscript = TopStartups /\ hpc = "batch"
  /\ Len(all_urns) = TopUrnLimit + PageSize - 1
  /\ start = Len(all_urns)

====
